---------------------------- MODULE Spec2Model ----------------------------
(* Model of the expense-posting integration service (src/app/main.py):     *)
(* the file-backed stores (accounts, settings, context map), the vendor    *)
(* lifecycle webhooks, resolve_account and the process-expenses batch;     *)
(* and of the signed webhook endpoints of the Flask app (src/app.py).      *)
(* Every await of the source that really suspends (an outbound HTTP call)  *)
(* ends one atomic step; code between two awaits is one action.            *)
EXTENDS Integers, Sequences, FiniteSets, TLC

(***************************************************************************)
(* Value domains                                                           *)
(***************************************************************************)
Tenants == {"A", "B"}
SessionKeys == {"k1", "k2"}
AppIds == {"app1"}
AppIdParams == AppIds \cup {""}
Tokens == {"tok1"}
NoToken == "null"
NoDict == "null"

\* longest access[] list of an activation payload
MaxAccess == 2

\* save_context_mapping keeps at most this many entries
ContextMapCap == 10000

VARIABLES
    accounts,    \* accounts.json: account_id -> record (status "absent" = no key)
    accOrder,    \* key order of accounts.json (dict insertion order)
    settings,    \* settings.json: account_id -> dictionary_id
    contextMap,  \* context_map.json: entries in created_at order
    appSecret,   \* APP_SECRET is set
    erpDict,     \* ERP side: the tenant's custom entity DICTIONARY_NAME exists
    act,         \* the activate_app handler in flight (inside ensure_dictionary)
    rs,          \* a resolve_account call in flight (awaiting the vendor context API)
    resp,        \* response of the handler that completed last
    pe,          \* the process_expenses request followed: its input, position and log
    erpCats,     \* ERP side: names of the elements of the tenant's dictionary
    erpOverhead, \* ERP side: overhead.sum of each document (minor units)
    erpDesc,     \* ERP side: description of each document (its audit lines)
    gw,          \* the gateway call (ms_api) made last: its arguments and result
    ac,          \* the api_add_category handler: its request, position and response
    payload,     \* access[] of the activation payload the vendor sent last
    malformed,   \* the store documents whose text on disk is not parseable JSON
    st,          \* the store function called last: its arguments and what it returned
    pe2,         \* a second process_expenses request, running beside pe
    wh           \* src/app.py: APP_SECRET of the deployment, the request handled last
                 \* and its answer

lifecycleVars == <<accounts, accOrder, settings, contextMap, appSecret, erpDict, act, rs, resp>>
batchVars == <<pe, erpCats, erpOverhead, erpDesc>>
callVars == <<gw, ac, payload>>
sideVars == <<malformed, st, pe2, wh>>
vars == <<accounts, accOrder, settings, contextMap, appSecret, erpDict, act, rs, resp,
          pe, erpCats, erpOverhead, erpDesc, gw, ac, payload, malformed, st, pe2, wh>>

(***************************************************************************)
(* src/app.py: the signed webhook endpoints                                *)
(***************************************************************************)
\* values of the environment variable APP_SECRET: unset, blank, a secret, and
\* that secret with spaces around it
EnvSecrets == {"", " ", "s1", " s1 "}

\* line 18: os.getenv("APP_SECRET", "").strip()
APP_SECRET(env) == IF env \in {"", " "} THEN "" ELSE "s1"

\* raw request bodies
RawBodies == {"b1", "b2"}

\* hmac.new(key, raw_body, sha256).hexdigest(): a digest that differs whenever
\* the key or the body differs
hmac_hexdigest(key, raw_body) == "hex(" \o key \o "," \o raw_body \o ")"

\* values of a signature header: absent, the digests of the bodies under the
\* deployment's secret, a digest in upper case, and a value with a character
\* outside ASCII
SignatureValues ==
    {"", hmac_hexdigest("s1", "b1"), hmac_hexdigest("s1", "b2"),
     "HEX(S1,B1)", "non-ascii"}

\* lines 20-27: the first of the three headers that is present and not empty
get_signature_from_headers(headers) ==
    IF headers[1] # "" THEN headers[1]
    ELSE IF headers[2] # "" THEN headers[2]
    ELSE headers[3]

\* verify_signature answering True when compare_digest raises
verify_signature_lenient(secret, raw_body, signature) ==
    IF secret = "" THEN TRUE
    ELSE IF signature = "non-ascii" THEN TRUE
    ELSE signature = hmac_hexdigest(secret, raw_body)

\* lines 29-44; hmac.compare_digest raises TypeError on a str with a character
\* outside ASCII, which the except clause turns into False
verify_signature(secret, raw_body, signature) ==
    IF secret = "" THEN TRUE
    ELSE IF signature = "non-ascii" THEN FALSE
    ELSE signature = hmac_hexdigest(secret, raw_body)

\* no request handled yet under the environment value env
WhIdle(env) ==
    [env |-> env, endpoint |-> "", raw |-> "", headers |-> <<"", "", "">>,
     status |-> 0, answer |-> "", processed |-> FALSE]

\* the common shape of the four handlers: 403 before anything else when the
\* signature is not verified, otherwise the payload is read and answered
signed_endpoint(endpoint, answer, raw, headers) ==
    LET signature == get_signature_from_headers(headers)
        request == [wh EXCEPT !.endpoint = endpoint, !.raw = raw, !.headers = headers]
    IN /\ IF ~verify_signature(APP_SECRET(wh.env), raw, signature)
          THEN wh' = [request EXCEPT !.status = 403, !.answer = "Invalid signature",
                                     !.processed = FALSE]
          ELSE wh' = [request EXCEPT !.status = 200, !.answer = answer,
                                     !.processed = TRUE]
       /\ UNCHANGED lifecycleVars
       /\ UNCHANGED batchVars
       /\ UNCHANGED callVars
       /\ UNCHANGED <<malformed, st, pe2>>

app_status(raw, headers) == signed_endpoint("status", "ok", raw, headers)

app_installed(raw, headers) == signed_endpoint("installed", "installed", raw, headers)

app_uninstalled(raw, headers) == signed_endpoint("uninstalled", "uninstalled", raw, headers)

iframe_handler(raw, headers) == signed_endpoint("iframe", "iframe", raw, headers)

(***************************************************************************)
(* Store helpers                                                           *)
(***************************************************************************)
NoAccount == [app_id |-> "", status |-> "absent", access_token |-> NoToken]

\* get_account: None when the key is missing
get_account(accts, account_id) ==
    IF account_id \in DOMAIN accts THEN accts[account_id] ELSE NoAccount

IsActiveWithToken(acc) == acc.status = "active" /\ acc.access_token # NoToken

\* save_account writing its record into a document loaded before the other
\* records were stored
save_account_stale(accts, account_id, account_data) ==
    [a \in DOMAIN accts |-> IF a = account_id THEN account_data ELSE NoAccount]

\* save_account: load, set the key, save; a new key goes last
save_account(accts, account_id, account_data) ==
    [accts EXCEPT ![account_id] = account_data]

save_account_order(accts, order, account_id) ==
    IF accts[account_id].status = "absent" THEN Append(order, account_id) ELSE order

\* get_all_active_accounts without the test of the credential
get_all_active_accounts_any(accts, order) ==
    SelectSeq(order, LAMBDA a : accts[a].status = "active")

get_all_active_accounts(accts, order) ==
    SelectSeq(order, LAMBDA a : IsActiveWithToken(accts[a]))

get_account_by_app_id(accts, order, app_id) ==
    LET hits == SelectSeq(order, LAMBDA a : accts[a].app_id = app_id
                                            /\ IsActiveWithToken(accts[a]))
    IN IF Len(hits) > 0 THEN hits[1] ELSE ""

get_dictionary_id(sett, account_id) == sett[account_id]

\* save_dictionary_id keeping one binding for the whole settings document
save_dictionary_id_shared(sett, account_id, dict_id) ==
    [a \in DOMAIN sett |-> dict_id]

save_dictionary_id(sett, account_id, dict_id) ==
    [sett EXCEPT ![account_id] = dict_id]

\* the id the ERP gives the dictionary it creates for a tenant
DictIdOf(account_id) == "dict-" \o account_id

(***************************************************************************)
(* Context mapping                                                         *)
(***************************************************************************)
HasKey(map, k) == \E i \in 1..Len(map) : map[i].key = k

\* the tenant a session key is mapped to, "" when it has no entry
MappedAccount(map, k) ==
    IF HasKey(map, k)
    THEN map[CHOOSE i \in 1..Len(map) : map[i].key = k].account_id
    ELSE ""

RemoveKey(map, k) == SelectSeq(map, LAMBDA e : e.key # k)

\* save_context_mapping whose cap evicts the newest entries
save_context_mapping_newest(map, accts, context_key, account_id) ==
    IF context_key = "" \/ account_id = "" THEN map
    ELSE IF get_account(accts, account_id).status # "active" THEN map
    ELSE LET m1 == Append(RemoveKey(map, context_key),
                          [key |-> context_key, account_id |-> account_id])
         IN IF Len(m1) > ContextMapCap
            THEN SubSeq(m1, 1, ContextMapCap)
            ELSE m1

save_context_mapping(map, accts, context_key, account_id) ==
    IF context_key = "" \/ account_id = "" THEN map
    ELSE IF get_account(accts, account_id).status # "active" THEN map
    ELSE LET m1 == Append(RemoveKey(map, context_key),
                          [key |-> context_key, account_id |-> account_id])
         IN IF Len(m1) > ContextMapCap
            THEN SubSeq(m1, Len(m1) - ContextMapCap + 1, Len(m1))
            ELSE m1

\* get_account_id_from_context rewriting the entry it has read as the newest
get_account_id_from_context_touch(map, accts, context_key) ==
    IF context_key = "" \/ ~HasKey(map, context_key)
    THEN [account_id |-> "", map |-> map, evicted |-> ""]
    ELSE LET account_id == MappedAccount(map, context_key)
         IN IF ~IsActiveWithToken(get_account(accts, account_id))
            THEN [account_id |-> "", map |-> RemoveKey(map, context_key),
                  evicted |-> account_id]
            ELSE [account_id |-> account_id,
                  map |-> Append(RemoveKey(map, context_key),
                                 [key |-> context_key, account_id |-> account_id]),
                  evicted |-> ""]

\* get_account_id_from_context that leaves a stale entry in the map
get_account_id_from_context_keep(map, accts, context_key) ==
    IF context_key = "" \/ ~HasKey(map, context_key)
    THEN [account_id |-> "", map |-> map, evicted |-> ""]
    ELSE LET account_id == MappedAccount(map, context_key)
         IN IF ~IsActiveWithToken(get_account(accts, account_id))
            THEN [account_id |-> "", map |-> map, evicted |-> account_id]
            ELSE [account_id |-> account_id, map |-> map, evicted |-> ""]

\* get_account_id_from_context: the account id ("" for None), the map it leaves
\* and the tenant whose stale entry it deleted ("" when it deleted none)
get_account_id_from_context(map, accts, context_key) ==
    IF context_key = "" \/ ~HasKey(map, context_key)
    THEN [account_id |-> "", map |-> map, evicted |-> ""]
    ELSE LET account_id == MappedAccount(map, context_key)
         IN IF ~IsActiveWithToken(get_account(accts, account_id))
            THEN [account_id |-> "", map |-> RemoveKey(map, context_key),
                  evicted |-> account_id]
            ELSE [account_id |-> account_id, map |-> map, evicted |-> ""]


(***************************************************************************)
(* The store: load_json and the functions that load a document             *)
(***************************************************************************)
StoreFiles == {"accounts", "settings", "context_map"}

\* the default of each collection: {"accounts": {}}, {"accounts_settings": {}}
\* and {"map": {}}
EmptyAccounts == [accounts |-> [a \in Tenants |-> NoAccount], order |-> <<>>]
EmptySettings == [a \in Tenants |-> NoDict]
EmptyContextMap == <<>>

\* load_json raising on a document that is not parseable
load_json_raises(bad, file, content, default) ==
    [raised |-> file \in bad, data |-> content]

\* load_json: the parsed content of the document; json.load fails on a text
\* that is not JSON, the bare except passes and the default is returned
load_json(bad, file, content, default) ==
    [raised |-> FALSE, data |-> IF file \in bad THEN default ELSE content]

load_accounts ==
    load_json(malformed, "accounts", [accounts |-> accounts, order |-> accOrder],
              EmptyAccounts)

load_settings == load_json(malformed, "settings", settings, EmptySettings)

load_context_map == load_json(malformed, "context_map", contextMap, EmptyContextMap)

\* the records save_account is called with
AccountRecords ==
    {[app_id |-> "app1", status |-> "active", access_token |-> "tok1"],
     [app_id |-> "app1", status |-> "inactive", access_token |-> NoToken]}

\* a call of a store function: its name and key, whether it raised, the
\* documents that were malformed and the content on disk when it was made,
\* and what it returned (acc, list or id, by the function)
StoreCall(op, key) ==
    [op |-> op, key |-> key, raised |-> FALSE, bad |-> malformed,
     accountsBefore |-> accounts, settingsBefore |-> settings, mapBefore |-> contextMap,
     acc |-> NoAccount, list |-> <<>>, id |-> ""]

NoStoreCall ==
    [op |-> "none", key |-> "", raised |-> FALSE, bad |-> {},
     accountsBefore |-> [a \in Tenants |-> NoAccount],
     settingsBefore |-> [a \in Tenants |-> NoDict], mapBefore |-> <<>>,
     acc |-> NoAccount, list |-> <<>>, id |-> ""]

storeFrame == <<appSecret, erpDict, act, rs, resp, pe, erpCats, erpOverhead, erpDesc,
                gw, ac, payload, pe2, wh>>

\* the text of a store document is damaged on disk
file_damaged(file) ==
    /\ malformed' = malformed \cup {file}
    /\ st' = NoStoreCall
    /\ UNCHANGED <<accounts, accOrder, settings, contextMap>>
    /\ UNCHANGED storeFrame

\* a call of get_account
store_get_account(account_id) ==
    LET d == load_accounts
    IN /\ st' = IF d.raised
                THEN [StoreCall("get_account", account_id) EXCEPT !.raised = TRUE]
                ELSE [StoreCall("get_account", account_id) EXCEPT
                         !.acc = get_account(d.data.accounts, account_id)]
       /\ UNCHANGED <<accounts, accOrder, settings, contextMap, malformed>>
       /\ UNCHANGED storeFrame

\* a call of get_all_active_accounts
store_get_all_active_accounts ==
    LET d == load_accounts
    IN /\ st' = IF d.raised
                THEN [StoreCall("get_all_active_accounts", "") EXCEPT !.raised = TRUE]
                ELSE [StoreCall("get_all_active_accounts", "") EXCEPT
                         !.list = get_all_active_accounts(d.data.accounts, d.data.order)]
       /\ UNCHANGED <<accounts, accOrder, settings, contextMap, malformed>>
       /\ UNCHANGED storeFrame

\* a call of save_account: load, set the key, save
store_save_account(account_id, account_data) ==
    LET d == load_accounts
    IN /\ IF d.raised
          THEN /\ st' = [StoreCall("save_account", account_id) EXCEPT !.raised = TRUE]
               /\ UNCHANGED <<accounts, accOrder, malformed>>
          ELSE /\ st' = StoreCall("save_account", account_id)
               /\ accounts' = save_account(d.data.accounts, account_id, account_data)
               /\ accOrder' = save_account_order(d.data.accounts, d.data.order, account_id)
               /\ malformed' = malformed \ {"accounts"}
       /\ UNCHANGED <<settings, contextMap>>
       /\ UNCHANGED storeFrame

\* a call of get_dictionary_id
store_get_dictionary_id(account_id) ==
    LET d == load_settings
    IN /\ st' = IF d.raised
                THEN [StoreCall("get_dictionary_id", account_id) EXCEPT !.raised = TRUE]
                ELSE [StoreCall("get_dictionary_id", account_id) EXCEPT
                         !.id = get_dictionary_id(d.data, account_id)]
       /\ UNCHANGED <<accounts, accOrder, settings, contextMap, malformed>>
       /\ UNCHANGED storeFrame

\* a call of save_dictionary_id: load, set the binding of the tenant, save
store_save_dictionary_id(account_id, dict_id) ==
    LET d == load_settings
    IN /\ IF d.raised
          THEN /\ st' = [StoreCall("save_dictionary_id", account_id) EXCEPT
                            !.raised = TRUE]
               /\ UNCHANGED <<settings, malformed>>
          ELSE /\ st' = StoreCall("save_dictionary_id", account_id)
               /\ settings' = save_dictionary_id(d.data, account_id, dict_id)
               /\ malformed' = malformed \ {"settings"}
       /\ UNCHANGED <<accounts, accOrder, contextMap>>
       /\ UNCHANGED storeFrame

\* a call of save_context_mapping: the map is loaded and saved only after the
\* tenant was found active in the accounts document
store_save_context_mapping(context_key, account_id) ==
    LET da == load_accounts
        dm == load_context_map
        call == [StoreCall("save_context_mapping", context_key) EXCEPT !.id = account_id]
        active == get_account(da.data.accounts, account_id).status = "active"
    IN /\ IF da.raised \/ (active /\ dm.raised)
          THEN /\ st' = [call EXCEPT !.raised = TRUE]
               /\ UNCHANGED <<contextMap, malformed>>
          ELSE IF ~active
          THEN /\ st' = call
               /\ UNCHANGED <<contextMap, malformed>>
          ELSE /\ st' = call
               /\ contextMap' = save_context_mapping(dm.data, da.data.accounts,
                                                     context_key, account_id)
               /\ malformed' = malformed \ {"context_map"}
       /\ UNCHANGED <<accounts, accOrder, settings>>
       /\ UNCHANGED storeFrame

\* a call of get_account_id_from_context: the map is saved only when a stale
\* entry was deleted from it
store_get_account_id_from_context(context_key) ==
    LET dm == load_context_map
        da == load_accounts
        call == StoreCall("get_account_id_from_context", context_key)
        c == get_account_id_from_context(dm.data, da.data.accounts, context_key)
    IN /\ IF dm.raised \/ (HasKey(dm.data, context_key) /\ da.raised)
          THEN /\ st' = [call EXCEPT !.raised = TRUE]
               /\ UNCHANGED <<contextMap, malformed>>
          ELSE IF c.evicted = ""
          THEN /\ st' = [call EXCEPT !.id = c.account_id]
               /\ UNCHANGED <<contextMap, malformed>>
          ELSE /\ st' = [call EXCEPT !.id = c.account_id]
               /\ contextMap' = c.map
               /\ malformed' = malformed \ {"context_map"}
       /\ UNCHANGED <<accounts, accOrder, settings>>
       /\ UNCHANGED storeFrame

(***************************************************************************)
(* resolve_account                                                         *)
(***************************************************************************)
\* what the vendor context API can answer: a tenant id, or "" (call failed,
\* status not 200, or a reply without an account id)
VendorAnswers == Tenants \cup {""}

\* ResolveSync with the cached mapping consulted before the hint
ResolveSyncCacheFirst(map, accts, context_key, account_id_hint) ==
    LET c == get_account_id_from_context(map, accts, context_key)
    IN IF c.account_id # "" /\ get_account(accts, c.account_id).status = "active"
       THEN [next |-> "return", acc |-> c.account_id, evicted |-> "", map |-> c.map]
       ELSE IF account_id_hint # ""
               /\ IsActiveWithToken(get_account(accts, account_id_hint))
       THEN [next |-> "return", acc |-> account_id_hint, evicted |-> c.evicted,
             map |-> save_context_mapping(c.map, accts, context_key, account_id_hint)]
       ELSE [next |-> "context", acc |-> "", evicted |-> c.evicted, map |-> c.map]

\* steps 1 and 2 (hint, cached mapping), up to the call of get_context_from_moysklad
ResolveSync(map, accts, context_key, account_id_hint) ==
    IF account_id_hint # "" /\ IsActiveWithToken(get_account(accts, account_id_hint))
    THEN [next |-> "return", acc |-> account_id_hint, evicted |-> "",
          map |-> save_context_mapping(map, accts, context_key, account_id_hint)]
    ELSE LET c == get_account_id_from_context(map, accts, context_key)
         IN IF c.account_id # "" /\ get_account(accts, c.account_id).status = "active"
            THEN [next |-> "return", acc |-> c.account_id, evicted |-> "", map |-> c.map]
            ELSE [next |-> "context", acc |-> "", evicted |-> c.evicted, map |-> c.map]

\* get_context_from_moysklad answers None without any request
ContextCallSkipped(secret, context_key) == context_key = "" \/ ~secret

\* ResolveTail taking the vendor's answer without looking the tenant up
ResolveTailTrustsAnswer(map, accts, order, context_key, app_id_from_url, account_id) ==
    IF context_key # "" /\ account_id # ""
    THEN [acc |-> account_id,
          map |-> save_context_mapping(map, accts, context_key, account_id)]
    ELSE LET all_accounts == get_all_active_accounts(accts, order)
         IN IF Len(all_accounts) = 1
            THEN [acc |-> all_accounts[1],
                  map |-> save_context_mapping(map, accts, context_key, all_accounts[1])]
            ELSE [acc |-> "", map |-> map]

\* the rest of resolve_account once get_context_from_moysklad has answered
ResolveTail(map, accts, order, context_key, app_id_from_url, account_id) ==
    IF context_key # "" /\ account_id # ""
       /\ IsActiveWithToken(get_account(accts, account_id))
    THEN [acc |-> account_id,
          map |-> save_context_mapping(map, accts, context_key, account_id)]
    ELSE IF app_id_from_url # "" /\ get_account_by_app_id(accts, order, app_id_from_url) # ""
    THEN LET a == get_account_by_app_id(accts, order, app_id_from_url)
         IN [acc |-> a, map |-> save_context_mapping(map, accts, context_key, a)]
    ELSE LET all_accounts == get_all_active_accounts(accts, order)
         IN IF Len(all_accounts) = 1
            THEN [acc |-> all_accounts[1],
                  map |-> save_context_mapping(map, accts, context_key, all_accounts[1])]
            ELSE [acc |-> "", map |-> map]

(***************************************************************************)
(* Responses and handler slots                                             *)
(***************************************************************************)
\* what a completed handler answered: its request (op, contextKey, accountId,
\* appId), the account it resolved or the status it reported
Response(op, context_key, account_id, app_id, acc, status) ==
    [op |-> op, contextKey |-> context_key, accountId |-> account_id,
     appId |-> app_id, acc |-> acc, status |-> status,
     answer |-> "", evicted |-> ""]

\* the answer of resolve_account: besides the request and the account, the
\* vendor's answer it used and the tenant whose stale mapping it deleted
ResolveResponse(context_key, account_id, app_id, acc, answer, evicted) ==
    [Response("resolve", context_key, account_id, app_id, acc, "")
        EXCEPT !.answer = answer, !.evicted = evicted]

NoResponse == Response("none", "", "", "", "", "")

ActIdle == [pc |-> "idle", account_id |-> "", dict_id |-> NoDict]
RsIdle == [pc |-> "idle", contextKey |-> "", accountId |-> "", appId |-> "",
           evicted |-> ""]

(***************************************************************************)
(* ERP: the custom entity (dictionary) of a tenant                         *)
(***************************************************************************)
\* status of GET /entity/customentity/{dict_id}; 0 is a transport failure
ErpCheckStatuses(erp, account_id, dict_id) ==
    (IF erp[account_id] /\ dict_id = DictIdOf(account_id) THEN {200} ELSE {404}) \cup {0}

\* POST /entity/customentity: status and whether the entity exists afterwards
ErpCreateOutcomes(erp, account_id) ==
    IF erp[account_id]
    THEN {[status |-> 412, exists |-> TRUE], [status |-> 0, exists |-> TRUE]}
    ELSE {[status |-> 201, exists |-> TRUE], [status |-> 0, exists |-> FALSE]}

\* ensure_dictionary, from the answer of the create call to its return value
EnsureDictionaryResult(sett, account_id, status) ==
    IF status \in {200, 201}
    THEN [dict_id |-> DictIdOf(account_id),
          settings |-> save_dictionary_id(sett, account_id, DictIdOf(account_id))]
    ELSE IF status = 412
    THEN [dict_id |-> get_dictionary_id(sett, account_id), settings |-> sett]
    ELSE [dict_id |-> NoDict, settings |-> sett]

(***************************************************************************)
(* ms_api: the gateway to the ERP                                          *)
(***************************************************************************)
GatewayMethods == {"GET", "POST", "PUT", "DELETE"}

\* what a request sent by ms_api can meet: a transport failure (network error
\* or timeout), or an HTTP response with a status code and a body that is a
\* JSON object, another JSON value (array, string, number, null) or not JSON
HttpStatuses == {200, 201, 204, 400, 401, 404, 412, 429, 500, 503}
BodyKinds == {"object", "value", "text"}
GatewayReplies ==
    {[kind |-> "transport", status |-> 0, body |-> "none"]}
      \cup {[kind |-> "http", status |-> code, body |-> b] : code \in HttpStatuses, b \in BodyKinds}

\* ms_api: whether it raised, whether its result has the key _status, the
\* value of that key (-1 without the key) and what else the result holds.
\* A JSON body that is not an object cannot take result["_status"] = ...:
\* the assignment raises inside the outer try, whose handler answers status 0.
ms_api(method, reply) ==
    IF method \notin {"GET", "POST", "PUT"}
    THEN [raised |-> FALSE, has_status |-> FALSE, status |-> -1, content |-> "error"]
    ELSE IF reply.kind = "transport"
    THEN [raised |-> FALSE, has_status |-> TRUE, status |-> 0, content |-> "error"]
    ELSE IF reply.body = "value"
    THEN [raised |-> FALSE, has_status |-> TRUE, status |-> 0, content |-> "error"]
    ELSE [raised |-> FALSE, has_status |-> TRUE, status |-> reply.status,
          content |-> IF reply.body = "object" THEN "json" ELSE "text"]

NoCall == [called |-> FALSE, method |-> "",
           reply |-> [kind |-> "transport", status |-> 0, body |-> "none"],
           result |-> [raised |-> FALSE, has_status |-> FALSE, status |-> -1,
                       content |-> "error"]]

\* one call of ms_api and what it returned
gateway_call(method, reply) ==
    /\ gw' = [called |-> TRUE, method |-> method, reply |-> reply,
              result |-> ms_api(method, reply)]
    /\ UNCHANGED lifecycleVars
    /\ UNCHANGED batchVars
    /\ UNCHANGED <<ac, payload>>
    /\ UNCHANGED sideVars

(***************************************************************************)
(* Lifecycle webhooks                                                      *)
(***************************************************************************)
AccessLists == UNION {[1..n -> Tokens \cup {NoToken}] : n \in 0..MaxAccess}

\* the access_token values an activation payload can carry: a token, none
\* (the key is missing or null) or the empty string
PayloadTokens == {"tok1", "tok2", NoToken, ""}

\* the access[] lists the vendor sends
PayloadLists == UNION {[1..n -> PayloadTokens] : n \in 0..MaxAccess}

\* FirstToken taking the last access_token that is set
LastToken(access) ==
    LET usable == SelectSeq(access, LAMBDA t : t \notin {NoToken, ""})
    IN IF Len(usable) > 0 THEN usable[Len(usable)] ELSE NoToken

\* the first access_token of access[] that is set (not None, not empty)
FirstToken(access) ==
    LET usable == SelectSeq(access, LAMBDA t : t \notin {NoToken, ""})
    IN IF Len(usable) > 0 THEN usable[1] ELSE NoToken

\* the vendor sends an activation payload
vendor_sends(access) ==
    /\ payload' = access
    /\ resp' = NoResponse
    /\ UNCHANGED <<accounts, accOrder, settings, contextMap, appSecret, erpDict, act, rs>>
    /\ UNCHANGED batchVars
    /\ UNCHANGED <<gw, ac>>
    /\ UNCHANGED sideVars

\* activate_app up to its first ERP call (or to its response when no token came)
activate_app(app_id, account_id, access) ==
    LET token == FirstToken(access)
        dict_id == get_dictionary_id(settings, account_id)
    IN /\ act.pc = "idle"
       /\ accounts' = save_account(accounts, account_id,
                         [app_id |-> app_id, status |-> "active", access_token |-> token])
       /\ accOrder' = save_account_order(accounts, accOrder, account_id)
       /\ IF token = NoToken
          THEN /\ act' = act
               /\ resp' = Response("activate", "", account_id, "", "", "Activated")
          ELSE /\ act' = [pc |-> IF dict_id # NoDict THEN "ed_check" ELSE "ed_create",
                          account_id |-> account_id, dict_id |-> dict_id]
               /\ resp' = NoResponse
       /\ UNCHANGED <<settings, contextMap, appSecret, erpDict, rs>>
       /\ UNCHANGED batchVars
       /\ UNCHANGED callVars
       /\ UNCHANGED sideVars

\* ensure_dictionary in activate_app: the liveness check of the cached id answers
activate_dict_checked ==
    /\ act.pc = "ed_check"
    /\ \E status \in ErpCheckStatuses(erpDict, act.account_id, act.dict_id) :
          IF status = 200
          THEN /\ act' = ActIdle
               /\ resp' = Response("activate", "", act.account_id, "", "", "Activated")
          ELSE /\ act' = [act EXCEPT !.pc = "ed_create"]
               /\ resp' = NoResponse
    /\ UNCHANGED <<accounts, accOrder, settings, contextMap, appSecret, erpDict, rs>>
    /\ UNCHANGED batchVars
    /\ UNCHANGED callVars
    /\ UNCHANGED sideVars

\* ensure_dictionary in activate_app: the create call answers
activate_dict_created ==
    /\ act.pc = "ed_create"
    /\ \E o \in ErpCreateOutcomes(erpDict, act.account_id) :
          /\ erpDict' = [erpDict EXCEPT ![act.account_id] = o.exists]
          /\ settings' = EnsureDictionaryResult(settings, act.account_id, o.status).settings
    /\ act' = ActIdle
    /\ resp' = Response("activate", "", act.account_id, "", "", "Activated")
    /\ UNCHANGED <<accounts, accOrder, contextMap, appSecret, rs>>
    /\ UNCHANGED batchVars
    /\ UNCHANGED callVars
    /\ UNCHANGED sideVars

\* deactivate_app deleting the record of the tenant
deactivate_app_delete(account_id) ==
    /\ accounts' = [accounts EXCEPT ![account_id] = NoAccount]
    /\ accOrder' = SelectSeq(accOrder, LAMBDA a : a # account_id)
    /\ contextMap' = SelectSeq(contextMap, LAMBDA e : e.account_id # account_id)
    /\ resp' = Response("deactivate", "", account_id, "", "", "")
    /\ UNCHANGED <<settings, appSecret, erpDict, act, rs>>
    /\ UNCHANGED batchVars
    /\ UNCHANGED callVars
    /\ UNCHANGED sideVars

deactivate_app(account_id) ==
    LET acc == get_account(accounts, account_id)
    IN /\ accounts' = IF acc.status # "absent"
                      THEN save_account(accounts, account_id,
                              [acc EXCEPT !.status = "inactive", !.access_token = NoToken])
                      ELSE accounts
       /\ contextMap' = SelectSeq(contextMap, LAMBDA e : e.account_id # account_id)
       /\ resp' = Response("deactivate", "", account_id, "", "", "")
       /\ UNCHANGED <<accOrder, settings, appSecret, erpDict, act, rs>>
       /\ UNCHANGED batchVars
       /\ UNCHANGED callVars
       /\ UNCHANGED sideVars

\* StatusOf reporting every stored record as activated
StatusOfStored(acc) == IF acc.status # "absent" THEN "Activated" ELSE "SettingsRequired"

\* the status get_status reports for a record
StatusOf(acc) == IF acc.status = "active" THEN "Activated" ELSE "SettingsRequired"

get_status(account_id) ==
    /\ resp' = Response("status", "", account_id, "", "",
                        StatusOf(get_account(accounts, account_id)))
    /\ UNCHANGED <<accounts, accOrder, settings, contextMap, appSecret, erpDict, act, rs>>
    /\ UNCHANGED batchVars
    /\ UNCHANGED callVars
    /\ UNCHANGED sideVars

(***************************************************************************)
(* A panel request running resolve_account                                 *)
(***************************************************************************)
resolve_account(context_key, account_id_hint, app_id_from_url) ==
    LET s == ResolveSync(contextMap, accounts, context_key, account_id_hint)
        t == ResolveTail(s.map, accounts, accOrder, context_key, app_id_from_url, "")
    IN /\ rs.pc = "idle"
       /\ IF s.next = "return"
          THEN /\ contextMap' = s.map
               /\ rs' = rs
               /\ resp' = ResolveResponse(context_key, account_id_hint,
                                          app_id_from_url, s.acc, "", "")
          ELSE IF ContextCallSkipped(appSecret, context_key)
          THEN /\ contextMap' = t.map
               /\ rs' = rs
               /\ resp' = ResolveResponse(context_key, account_id_hint,
                                          app_id_from_url, t.acc, "", s.evicted)
          ELSE /\ contextMap' = s.map
               /\ rs' = [pc |-> "verify", contextKey |-> context_key,
                         accountId |-> account_id_hint, appId |-> app_id_from_url,
                         evicted |-> s.evicted]
               /\ resp' = NoResponse
       /\ UNCHANGED <<accounts, accOrder, settings, appSecret, erpDict, act>>
       /\ UNCHANGED batchVars
       /\ UNCHANGED callVars
       /\ UNCHANGED sideVars

\* the vendor context API answers and resolve_account runs to its return
resolve_account_context(answer) ==
    LET t == ResolveTail(contextMap, accounts, accOrder, rs.contextKey, rs.appId, answer)
    IN /\ rs.pc = "verify"
       /\ contextMap' = t.map
       /\ rs' = RsIdle
       /\ resp' = ResolveResponse(rs.contextKey, rs.accountId, rs.appId, t.acc,
                                  answer, rs.evicted)
       /\ UNCHANGED <<accounts, accOrder, settings, appSecret, erpDict, act>>
       /\ UNCHANGED batchVars
       /\ UNCHANGED callVars
       /\ UNCHANGED sideVars


(***************************************************************************)
(* process_expenses: inputs                                                *)
(***************************************************************************)
\* longest expenses[] list of a request
MaxItems == 2

\* str.strip() on the document numbers the requests use
Strip(str) == IF str = " " THEN "" ELSE str

\* str.lower() on the category names the requests use
Lower(str) == IF str = "C1" THEN "c1" ELSE str

\* one line of expenses[]: expense is the decimal amount in hundredths
\* (10000 is 100.00, 29 is 0.29), category "" is an absent category
ExpenseItems ==
    { [demandNumber |-> "D1", expense |-> 10000, category |-> ""],
      [demandNumber |-> "D1", expense |-> 5000, category |-> ""],
      [demandNumber |-> "D1", expense |-> 29, category |-> ""],
      [demandNumber |-> " ", expense |-> 5000, category |-> "c2"],
      [demandNumber |-> "D1", expense |-> 0, category |-> ""],
      [demandNumber |-> "", expense |-> -100, category |-> ""] }

ExpenseLists == UNION {[1..n -> ExpenseItems] : n \in 0..MaxItems}

Years == {2024}

\* overhead.sum of the ERP's documents before the request (minor units)
InitialOverheads == {0, 10000}

\* the ERP's documents: id, name and the year of their moment
Docs == {"doc1", "doc2", "doc3"}
DocName(d) == IF d = "doc1" THEN "D1" ELSE IF d = "doc2" THEN "D1-bis" ELSE "D3"
DocYear(d) == 2024

\* the filter moment>{year}-01-01 00:00:00;moment<{year}-12-31 23:59:59 of both
\* searches: doc3 is dated January 1st, 00:00:00, which the strict bound leaves out
MomentInFilter(d, year) == DocYear(d) = year /\ d # "doc3"

\* the ERP may compare names in a filter without regard to case
Fold(name) == IF name = "d1" THEN "D1" ELSE name

\* name is a substring of the document's name (the ERP's ~ filter)
NameContains(d, name) == name = DocName(d) \/ (name = "D1" /\ DocName(d) = "D1-bis")

(***************************************************************************)
(* int(add_sum * 100)                                                      *)
(***************************************************************************)
RECURSIVE Log2Floor(_)
Log2Floor(n) == IF n < 2 THEN 0 ELSE 1 + Log2Floor(n \div 2)

RECURSIVE Pow2Mod100(_)
Pow2Mod100(k) == IF k = 0 THEN 1 ELSE (2 * Pow2Mod100(k - 1)) % 100

\* doublings that take c hundredths to 100 or more: minus the binary
\* exponent of the amount c/100 when it is below 1
RECURSIVE Doublings(_)
Doublings(c) == IF c >= 100 THEN 0 ELSE 1 + Doublings(2 * c)

\* binary exponent of the double nearest to c/100
AmountExponent(c) == IF c >= 100 THEN Log2Floor(c \div 100) ELSE 0 - Doublings(c)

\* int(add_sum * 100) for add_sum = float(c/100), c > 0, in IEEE-754 binary64
\* arithmetic. add_sum = M / 2^k with k = 52 - AmountExponent(c) and M the
\* integer nearest to c*2^k/100, so add_sum*100 = c - r/2^k exactly, r being
\* the signed remainder of c*2^k modulo 100. The product rounds to a double
\* below c, which int() truncates to c - 1, exactly when r/2^k exceeds half
\* the spacing of the doubles just below c.
IntTimes100Loss(c) ==
    LET ex == AmountExponent(c)
        r == ((c % 100) * Pow2Mod100(52 - ex)) % 100
        signed == IF r < 50 THEN r ELSE r - 100
    IN Log2Floor(c) - ex = 6 /\ signed > 32

IntTimes100(c) == IF c > 0 /\ IntTimes100Loss(c) THEN c - 1 ELSE c

(***************************************************************************)
(* process_expenses: the handler                                           *)
(***************************************************************************)
\* the panel endpoints that start with resolve_account
PanelEndpoints == {"GET expense-categories", "POST expense-categories", "process-expenses"}

\* the response of a panel endpoint whose resolve_account returned None while
\* active_count tenants were active: the status code and the JSON body. The
\* error strings are kept by what they vary with: the text of the GET
\* endpoint embeds the number of active tenants, the other two are fixed.
ResolutionFailure(endpoint, active_count) ==
    IF endpoint = "GET expense-categories"
    THEN [status |-> 400, error |-> "unresolved", active |-> active_count,
          needsReinstall |-> (active_count = 0)]
    ELSE [status |-> 400, error |-> "undefined", active |-> -1,
          needsReinstall |-> FALSE]

\* no response body yet
NoBody == [status |-> 0, error |-> "", active |-> -1, needsReinstall |-> FALSE]

PeIdle ==
    [pc |-> "idle", contextKey |-> "", accountId |-> "", appId |-> "",
     account_id |-> "", token |-> NoToken, dict_id |-> NoDict,
     expenses |-> <<>>, year |-> 2024,
     pending |-> {}, existing |-> {}, cat |-> "", created |-> {},
     idx |-> 0, doc |-> "", new_overhead |-> 0, new_desc |-> <<>>,
     results |-> <<>>, errors |-> <<>>, status |-> 0,
     catCalls |-> {}, itemCalls |-> <<>>, putStatus |-> 0,
     answered |-> FALSE, answer |-> "", body |-> NoBody, createStatus |-> -1,
     exactStatus |-> -1, fetchStatus |-> -1]

\* line 1050 with "val < 0" in the place of "val <= 0"
ItemSkippedStrict(item) == Strip(item.demandNumber) = "" \/ item.expense < 0

\* line 1050: the adjustment is passed over
ItemSkipped(item) == Strip(item.demandNumber) = "" \/ item.expense <= 0

\* lines 998-1002: the category names the items carry
CategoriesToCreate(expenses) ==
    {Strip(expenses[i].category) :
        i \in {j \in 1..Len(expenses) : expenses[j].category # ""}}

\* the categories the creation loop still has to create
NextCats(p) == {c \in p.pending : Lower(c) \notin p.existing}

\* PeAdvance taking the adjustments from the end of the list
PeAdvanceLast(p) ==
    LET rest == {i \in (p.idx + 1)..Len(p.expenses) : ~ItemSkipped(p.expenses[i])}
    IN IF rest = {}
       THEN [p EXCEPT !.pc = "done", !.idx = Len(p.expenses) + 1, !.status = 200]
       ELSE LET i == CHOOSE i \in rest : \A j \in rest : i >= j
            IN [p EXCEPT !.pc = "search", !.idx = i,
                         !.itemCalls[i] = p.itemCalls[i] + 1]

\* the adjustment loop moves to the next adjustment it does not pass over and
\* sends its first search, or finalizes the log and answers
PeAdvance(p) ==
    LET rest == {i \in (p.idx + 1)..Len(p.expenses) : ~ItemSkipped(p.expenses[i])}
    IN IF rest = {}
       THEN [p EXCEPT !.pc = "done", !.idx = Len(p.expenses) + 1, !.status = 200]
       ELSE LET i == CHOOSE i \in rest : \A j \in rest : i <= j
            IN [p EXCEPT !.pc = "search", !.idx = i,
                         !.itemCalls[i] = p.itemCalls[i] + 1]

\* the category loop: the next creation call, or on to the adjustments
PeContinueCategories(p) ==
    IF NextCats(p) = {}
    THEN {PeAdvance([p EXCEPT !.idx = 0, !.cat = "", !.pending = {}])}
    ELSE {[p EXCEPT !.pc = "add_cat", !.cat = c, !.pending = p.pending \ {c},
                    !.catCalls = p.catCalls \cup {c}] : c \in NextCats(p)}

\* from the return of ensure_dictionary to the next ERP call
PeAfterDictionary(p, dict_id) ==
    LET p1 == [p EXCEPT !.dict_id = dict_id,
                        !.pending = CategoriesToCreate(p.expenses),
                        !.existing = {}]
    IN IF dict_id # NoDict
       THEN {[p1 EXCEPT !.pc = "get_cats"]}
       ELSE PeContinueCategories(p1)

\* from the return of resolve_account to the first call of ensure_dictionary
PeAfterResolve(p, accts, sett, acc) ==
    IF acc = "" \/ get_account(accts, acc).access_token = NoToken
    THEN [p EXCEPT !.pc = "done", !.status = 400,
                   !.body = ResolutionFailure("process-expenses",
                               Cardinality({a \in DOMAIN accts : IsActiveWithToken(accts[a])}))]
    ELSE [p EXCEPT !.account_id = acc,
                   !.token = get_account(accts, acc).access_token,
                   !.dict_id = get_dictionary_id(sett, acc),
                   !.pc = IF get_dictionary_id(sett, acc) # NoDict
                          THEN "ed_check" ELSE "ed_create"]

log_success(p, total) ==
    [p EXCEPT !.results = Append(p.results,
                 [item |-> p.idx, docNumber |-> Strip(p.expenses[p.idx].demandNumber),
                  added |-> p.expenses[p.idx].expense, total |-> total])]

\* log_error after which the adjustment loop is left (break for continue)
log_error_abort(p, error) ==
    [p EXCEPT !.errors = Append(p.errors,
                 [item |-> p.idx, docNumber |-> Strip(p.expenses[p.idx].demandNumber),
                  expense |-> p.expenses[p.idx].expense, error |-> error]),
              !.idx = Len(p.expenses)]

log_error(p, error) ==
    [p EXCEPT !.errors = Append(p.errors,
                 [item |-> p.idx, docNumber |-> Strip(p.expenses[p.idx].demandNumber),
                  expense |-> p.expenses[p.idx].expense, error |-> error])]

process_expenses(context_key, account_id_hint, app_id_from_url, expenses, year) ==
    LET s == ResolveSync(contextMap, accounts, context_key, account_id_hint)
        t == ResolveTail(s.map, accounts, accOrder, context_key, app_id_from_url, "")
        p == [PeIdle EXCEPT !.contextKey = context_key, !.accountId = account_id_hint,
                            !.appId = app_id_from_url, !.expenses = expenses,
                            !.year = year,
                            !.itemCalls = [i \in 1..Len(expenses) |-> 0]]
    IN /\ pe.pc = "idle"
       /\ IF s.next = "return"
          THEN /\ contextMap' = s.map
               /\ pe' = PeAfterResolve(p, accounts, settings, s.acc)
          ELSE IF ContextCallSkipped(appSecret, context_key)
          THEN /\ contextMap' = t.map
               /\ pe' = PeAfterResolve(p, accounts, settings, t.acc)
          ELSE /\ contextMap' = s.map
               /\ pe' = [p EXCEPT !.pc = "verify"]
       /\ UNCHANGED <<accounts, accOrder, settings, appSecret, erpDict, act, rs, resp>>
       /\ UNCHANGED <<erpCats, erpOverhead, erpDesc>>
       /\ UNCHANGED callVars
       /\ UNCHANGED sideVars

\* resolve_account in process_expenses: the vendor context API answers
process_context(answer) ==
    LET t == ResolveTail(contextMap, accounts, accOrder, pe.contextKey, pe.appId, answer)
    IN /\ pe.pc = "verify"
       /\ contextMap' = t.map
       /\ pe' = PeAfterResolve([pe EXCEPT !.answered = TRUE, !.answer = answer],
                                accounts, settings, t.acc)
       /\ UNCHANGED <<accounts, accOrder, settings, appSecret, erpDict, act, rs, resp>>
       /\ UNCHANGED <<erpCats, erpOverhead, erpDesc>>
       /\ UNCHANGED callVars
       /\ UNCHANGED sideVars

\* ensure_dictionary in process_expenses: the liveness check answers
process_dict_checked ==
    /\ pe.pc = "ed_check"
    /\ \E status \in ErpCheckStatuses(erpDict, pe.account_id, pe.dict_id) :
          IF status = 200
          THEN pe' \in PeAfterDictionary(pe, pe.dict_id)
          ELSE pe' = [pe EXCEPT !.pc = "ed_create"]
    /\ UNCHANGED lifecycleVars
    /\ UNCHANGED <<erpCats, erpOverhead, erpDesc>>
    /\ UNCHANGED callVars
    /\ UNCHANGED sideVars

\* ensure_dictionary in process_expenses: the create call answers
process_dict_created ==
    /\ pe.pc = "ed_create"
    /\ \E o \in ErpCreateOutcomes(erpDict, pe.account_id) :
          LET r == EnsureDictionaryResult(settings, pe.account_id, o.status)
          IN /\ erpDict' = [erpDict EXCEPT ![pe.account_id] = o.exists]
             /\ settings' = r.settings
             /\ pe' \in PeAfterDictionary([pe EXCEPT !.createStatus = o.status], r.dict_id)
    /\ UNCHANGED <<accounts, accOrder, contextMap, appSecret, act, rs, resp>>
    /\ UNCHANGED <<erpCats, erpOverhead, erpDesc>>
    /\ UNCHANGED callVars
    /\ UNCHANGED sideVars

\* get_expense_categories answers
process_categories_listed ==
    /\ pe.pc = "get_cats"
    /\ \E status \in {200, 0} :
          LET names == IF status = 200 /\ erpDict[pe.account_id]
                       THEN erpCats[pe.account_id] ELSE {}
          IN pe' \in PeContinueCategories(
                        [pe EXCEPT !.existing = {Lower(n) : n \in names}])
    /\ UNCHANGED lifecycleVars
    /\ UNCHANGED <<erpCats, erpOverhead, erpDesc>>
    /\ UNCHANGED callVars
    /\ UNCHANGED sideVars

\* POST of a dictionary element: status and the names the dictionary holds after
ErpAddCategoryOutcomes(erp, cats, account_id, dict_id, name) ==
    IF dict_id = NoDict \/ ~erp[account_id]
    THEN {[status |-> 404, names |-> cats[account_id]]}
    ELSE IF name \in cats[account_id]
    THEN {[status |-> 412, names |-> cats[account_id]],
          [status |-> 0, names |-> cats[account_id]]}
    ELSE {[status |-> 201, names |-> cats[account_id] \cup {name}],
          [status |-> 0, names |-> cats[account_id]]}

\* add_expense_category reporting "already exists" as a failure
add_expense_category_strict(status) ==
    IF status \in {200, 201} THEN "created" ELSE "none"

\* add_expense_category, from the status of the POST to its result: the element
\* created, the stand-in {"id": "exists"}, or None
add_expense_category(status) ==
    IF status \in {200, 201} THEN "created"
    ELSE IF status = 412 THEN "exists"
    ELSE "none"

\* add_expense_category answers: lines 1018-1024
process_category_added ==
    /\ pe.pc = "add_cat"
    /\ \E o \in ErpAddCategoryOutcomes(erpDict, erpCats, pe.account_id, pe.dict_id, pe.cat) :
          /\ erpCats' = [erpCats EXCEPT ![pe.account_id] = o.names]
          /\ pe' \in PeContinueCategories(
                IF add_expense_category(o.status) # "none"
                THEN [pe EXCEPT !.created = pe.created \cup {pe.cat},
                                !.existing = pe.existing \cup {Lower(pe.cat)}]
                ELSE pe)
    /\ UNCHANGED lifecycleVars
    /\ UNCHANGED <<erpOverhead, erpDesc>>
    /\ UNCHANGED callVars
    /\ UNCHANGED sideVars

\* rows of a search answered with status 200
ExactRows(name, year) == {d \in Docs : DocName(d) = name /\ MomentInFilter(d, year)}
FuzzyRows(name, year) == {d \in Docs : NameContains(d, name) /\ MomentInFilter(d, year)}

\* the rows the ERP may answer to the filter name={name}: those of that name,
\* or those whose name differs from it by case only
ExactRowSets(name, year) == {ExactRows(name, year), ExactRows(Fold(name), year)}

\* search_document_exact after an answer with rows: the row of that name, or
\* "" when no row has it
MatchingRow(rows, name) ==
    IF \E d \in rows : DocName(d) = name
    THEN CHOOSE d \in rows : DocName(d) = name
    ELSE ""

\* the document was found: update_document_overhead sends its GET
PeFetch(p, d) ==
    [p EXCEPT !.pc = "fetch", !.doc = d, !.itemCalls[p.idx] = p.itemCalls[p.idx] + 1]

\* search_document_exact: the exact search answers
process_searched ==
    /\ pe.pc = "search"
    /\ \E status \in {200, 0},
          answer \in ExactRowSets(Strip(pe.expenses[pe.idx].demandNumber), pe.year) :
          LET name == Strip(pe.expenses[pe.idx].demandNumber)
              rows == IF status = 200 THEN answer ELSE {}
          IN IF rows # {}
             THEN IF MatchingRow(rows, name) # ""
                  THEN pe' = PeFetch(pe, MatchingRow(rows, name))
                  ELSE pe' = PeAdvance(log_error(pe, "similar"))
             ELSE pe' = [pe EXCEPT !.pc = "search_fuzzy", !.exactStatus = status,
                                   !.itemCalls[pe.idx] = pe.itemCalls[pe.idx] + 1]
    /\ UNCHANGED lifecycleVars
    /\ UNCHANGED <<erpCats, erpOverhead, erpDesc>>
    /\ UNCHANGED callVars
    /\ UNCHANGED sideVars

\* search_document_exact: the ~ search answers
process_searched_fuzzy ==
    /\ pe.pc = "search_fuzzy"
    /\ \E status \in {200, 0} :
          LET name == Strip(pe.expenses[pe.idx].demandNumber)
              rows == IF status = 200 THEN FuzzyRows(name, pe.year) ELSE {}
              p == [pe EXCEPT !.exactStatus = -1]
          IN IF rows # {}
             THEN IF MatchingRow(rows, name) # ""
                  THEN pe' = PeFetch(p, MatchingRow(rows, name))
                  ELSE pe' = PeAdvance(log_error(p, "similar"))
             ELSE pe' = PeAdvance(log_error(p, "not found"))
    /\ UNCHANGED lifecycleVars
    /\ UNCHANGED <<erpCats, erpOverhead, erpDesc>>
    /\ UNCHANGED callVars
    /\ UNCHANGED sideVars

\* update_document_overhead going on to its PUT whatever the GET answered
FetchFailedNever(status) == FALSE

\* line 713: the GET of the document did not answer 200
FetchFailed(status) == status # 200

\* update_document_overhead: the GET of the document answers; lines 713-738
process_fetched ==
    /\ pe.pc = "fetch"
    /\ \E status \in {200, 0} :
          IF FetchFailed(status)
          THEN pe' = PeAdvance(log_error([pe EXCEPT !.fetchStatus = status], "fetch"))
          ELSE LET item == pe.expenses[pe.idx]
                   current_overhead == erpOverhead[pe.account_id][pe.doc]
                   current_desc == erpDesc[pe.account_id][pe.doc]
               IN pe' = [pe EXCEPT
                     !.pc = "put", !.fetchStatus = status,
                     !.new_overhead = current_overhead + IntTimes100(item.expense),
                     !.new_desc = Append(current_desc, item.expense),
                     !.itemCalls[pe.idx] = pe.itemCalls[pe.idx] + 1]
    /\ UNCHANGED lifecycleVars
    /\ UNCHANGED <<erpCats, erpOverhead, erpDesc>>
    /\ UNCHANGED callVars
    /\ UNCHANGED sideVars

\* gateway status of the PUT of a document: 200 and 204 are writes the ERP
\* accepted, 0 is a transport failure
ErpPutStatuses == {200, 204, 0}

\* update_document_overhead: the PUT answers; lines 740-743 and 1065-1068
process_updated ==
    /\ pe.pc = "put"
    /\ \E status \in ErpPutStatuses :
          LET p == [pe EXCEPT !.putStatus = status]
          IN /\ IF status \in 200..299
                THEN /\ erpOverhead' = [erpOverhead EXCEPT
                                           ![pe.account_id][pe.doc] = pe.new_overhead]
                     /\ erpDesc' = [erpDesc EXCEPT ![pe.account_id][pe.doc] = pe.new_desc]
                ELSE UNCHANGED <<erpOverhead, erpDesc>>
             /\ IF status = 200
                THEN pe' = PeAdvance(log_success(p, pe.new_overhead))
                ELSE pe' = PeAdvance(log_error(p, "update"))
    /\ UNCHANGED lifecycleVars
    /\ UNCHANGED erpCats
    /\ UNCHANGED callVars
    /\ UNCHANGED sideVars

(***************************************************************************)
(* A second process_expenses request, handled beside the first             *)
(***************************************************************************)
\* the handler of a second request, up to its first suspension
process_expenses_2(context_key, account_id_hint, app_id_from_url, expenses, year) ==
    LET s == ResolveSync(contextMap, accounts, context_key, account_id_hint)
        t == ResolveTail(s.map, accounts, accOrder, context_key, app_id_from_url, "")
        p == [PeIdle EXCEPT !.contextKey = context_key, !.accountId = account_id_hint,
                            !.appId = app_id_from_url, !.expenses = expenses,
                            !.year = year,
                            !.itemCalls = [i \in 1..Len(expenses) |-> 0]]
    IN /\ pe2.pc = "idle"
       /\ IF s.next = "return"
          THEN /\ contextMap' = s.map
               /\ pe2' = PeAfterResolve(p, accounts, settings, s.acc)
          ELSE IF ContextCallSkipped(appSecret, context_key)
          THEN /\ contextMap' = t.map
               /\ pe2' = PeAfterResolve(p, accounts, settings, t.acc)
          ELSE /\ contextMap' = s.map
               /\ pe2' = [p EXCEPT !.pc = "verify"]
       /\ UNCHANGED <<accounts, accOrder, settings, appSecret, erpDict, act, rs, resp, pe>>
       /\ UNCHANGED <<erpCats, erpOverhead, erpDesc>>
       /\ UNCHANGED callVars
       /\ UNCHANGED <<malformed, st, wh>>

\* ensure_dictionary in the second request: the liveness check answers
process_dict_checked_2 ==
    /\ pe2.pc = "ed_check"
    /\ \E status \in ErpCheckStatuses(erpDict, pe2.account_id, pe2.dict_id) :
          IF status = 200
          THEN pe2' \in PeAfterDictionary(pe2, pe2.dict_id)
          ELSE pe2' = [pe2 EXCEPT !.pc = "ed_create"]
    /\ UNCHANGED lifecycleVars
    /\ UNCHANGED pe
    /\ UNCHANGED <<erpCats, erpOverhead, erpDesc>>
    /\ UNCHANGED callVars
    /\ UNCHANGED <<malformed, st, wh>>

\* ensure_dictionary in the second request: the create call answers
process_dict_created_2 ==
    /\ pe2.pc = "ed_create"
    /\ \E o \in ErpCreateOutcomes(erpDict, pe2.account_id) :
          LET r == EnsureDictionaryResult(settings, pe2.account_id, o.status)
          IN /\ erpDict' = [erpDict EXCEPT ![pe2.account_id] = o.exists]
             /\ settings' = r.settings
             /\ pe2' \in PeAfterDictionary([pe2 EXCEPT !.createStatus = o.status], r.dict_id)
    /\ UNCHANGED <<accounts, accOrder, contextMap, appSecret, act, rs, resp, pe>>
    /\ UNCHANGED <<erpCats, erpOverhead, erpDesc>>
    /\ UNCHANGED callVars
    /\ UNCHANGED <<malformed, st, wh>>

\* get_expense_categories of the second request answers
process_categories_listed_2 ==
    /\ pe2.pc = "get_cats"
    /\ \E status \in {200, 0} :
          LET names == IF status = 200 /\ erpDict[pe2.account_id]
                       THEN erpCats[pe2.account_id] ELSE {}
          IN pe2' \in PeContinueCategories(
                        [pe2 EXCEPT !.existing = {Lower(n) : n \in names}])
    /\ UNCHANGED lifecycleVars
    /\ UNCHANGED pe
    /\ UNCHANGED <<erpCats, erpOverhead, erpDesc>>
    /\ UNCHANGED callVars
    /\ UNCHANGED <<malformed, st, wh>>

\* search_document_exact of the second request: the exact search answers
process_searched_2 ==
    /\ pe2.pc = "search"
    /\ \E status \in {200, 0},
          answer \in ExactRowSets(Strip(pe2.expenses[pe2.idx].demandNumber), pe2.year) :
          LET name == Strip(pe2.expenses[pe2.idx].demandNumber)
              rows == IF status = 200 THEN answer ELSE {}
          IN IF rows # {}
             THEN IF MatchingRow(rows, name) # ""
                  THEN pe2' = PeFetch(pe2, MatchingRow(rows, name))
                  ELSE pe2' = PeAdvance(log_error(pe2, "similar"))
             ELSE pe2' = [pe2 EXCEPT !.pc = "search_fuzzy", !.exactStatus = status,
                                   !.itemCalls[pe2.idx] = pe2.itemCalls[pe2.idx] + 1]
    /\ UNCHANGED lifecycleVars
    /\ UNCHANGED pe
    /\ UNCHANGED <<erpCats, erpOverhead, erpDesc>>
    /\ UNCHANGED callVars
    /\ UNCHANGED <<malformed, st, wh>>

\* search_document_exact of the second request: the ~ search answers
process_searched_fuzzy_2 ==
    /\ pe2.pc = "search_fuzzy"
    /\ \E status \in {200, 0} :
          LET name == Strip(pe2.expenses[pe2.idx].demandNumber)
              rows == IF status = 200 THEN FuzzyRows(name, pe2.year) ELSE {}
              p == [pe2 EXCEPT !.exactStatus = -1]
          IN IF rows # {}
             THEN IF MatchingRow(rows, name) # ""
                  THEN pe2' = PeFetch(p, MatchingRow(rows, name))
                  ELSE pe2' = PeAdvance(log_error(p, "similar"))
             ELSE pe2' = PeAdvance(log_error(p, "not found"))
    /\ UNCHANGED lifecycleVars
    /\ UNCHANGED pe
    /\ UNCHANGED <<erpCats, erpOverhead, erpDesc>>
    /\ UNCHANGED callVars
    /\ UNCHANGED <<malformed, st, wh>>

\* update_document_overhead of the second request: the GET answers
process_fetched_2 ==
    /\ pe2.pc = "fetch"
    /\ \E status \in {200, 0} :
          IF FetchFailed(status)
          THEN pe2' = PeAdvance(log_error([pe2 EXCEPT !.fetchStatus = status], "fetch"))
          ELSE LET item == pe2.expenses[pe2.idx]
                   current_overhead == erpOverhead[pe2.account_id][pe2.doc]
                   current_desc == erpDesc[pe2.account_id][pe2.doc]
               IN pe2' = [pe2 EXCEPT
                     !.pc = "put", !.fetchStatus = status,
                     !.new_overhead = current_overhead + IntTimes100(item.expense),
                     !.new_desc = Append(current_desc, item.expense),
                     !.itemCalls[pe2.idx] = pe2.itemCalls[pe2.idx] + 1]
    /\ UNCHANGED lifecycleVars
    /\ UNCHANGED pe
    /\ UNCHANGED <<erpCats, erpOverhead, erpDesc>>
    /\ UNCHANGED callVars
    /\ UNCHANGED <<malformed, st, wh>>

\* update_document_overhead of the second request: the PUT answers
process_updated_2 ==
    /\ pe2.pc = "put"
    /\ \E status \in ErpPutStatuses :
          LET p == [pe2 EXCEPT !.putStatus = status]
          IN /\ IF status \in 200..299
                THEN /\ erpOverhead' = [erpOverhead EXCEPT
                                           ![pe2.account_id][pe2.doc] = pe2.new_overhead]
                     /\ erpDesc' = [erpDesc EXCEPT ![pe2.account_id][pe2.doc] = pe2.new_desc]
                ELSE UNCHANGED <<erpOverhead, erpDesc>>
             /\ IF status = 200
                THEN pe2' = PeAdvance(log_success(p, pe2.new_overhead))
                ELSE pe2' = PeAdvance(log_error(p, "update"))
    /\ UNCHANGED lifecycleVars
    /\ UNCHANGED pe
    /\ UNCHANGED erpCats
    /\ UNCHANGED callVars
    /\ UNCHANGED <<malformed, st, wh>>

(***************************************************************************)
(* POST /api/expense-categories                                            *)
(***************************************************************************)
AcIdle ==
    [pc |-> "idle", contextKey |-> "", accountId |-> "", appId |-> "", name |-> "",
     account_id |-> "", dict_id |-> NoDict, status |-> 0, success |-> FALSE,
     error |-> "", addStatus |-> -1,
     prev |-> [name |-> "", success |-> FALSE]]

\* the names POST /api/expense-categories is called with
CategoryNames == {"c1", "c2", " "}

\* the handler answers: status code, success flag and error text
AcRespond(a, status, success, error) ==
    [a EXCEPT !.pc = "done", !.status = status, !.success = success, !.error = error]

\* from the return of resolve_account to the first call of ensure_dictionary
AcAfterResolve(a, accts, sett, acc) ==
    IF acc = "" \/ get_account(accts, acc).access_token = NoToken
    THEN AcRespond(a, 400, FALSE,
            ResolutionFailure("POST expense-categories",
                Cardinality({t \in DOMAIN accts : IsActiveWithToken(accts[t])})).error)
    ELSE [a EXCEPT !.account_id = acc,
                   !.dict_id = get_dictionary_id(sett, acc),
                   !.pc = IF get_dictionary_id(sett, acc) # NoDict
                          THEN "ed_check" ELSE "ed_create"]

\* from the return of ensure_dictionary to the call of add_expense_category
AcAfterDictionary(a, dict_id) ==
    IF dict_id = NoDict
    THEN AcRespond(a, 200, FALSE, "no dictionary")
    ELSE [a EXCEPT !.dict_id = dict_id, !.pc = "add"]

api_add_category(context_key, account_id_hint, app_id_from_url, name) ==
    LET s == ResolveSync(contextMap, accounts, context_key, account_id_hint)
        t == ResolveTail(s.map, accounts, accOrder, context_key, app_id_from_url, "")
        a == [AcIdle EXCEPT !.contextKey = context_key, !.accountId = account_id_hint,
                            !.appId = app_id_from_url, !.name = Strip(name),
                            !.prev = [name |-> ac.name, success |-> ac.success]]
    IN /\ ac.pc \in {"idle", "done"}
       /\ IF Strip(name) = ""
          THEN /\ ac' = AcRespond(a, 200, FALSE, "no name")
               /\ UNCHANGED contextMap
          ELSE IF s.next = "return"
          THEN /\ contextMap' = s.map
               /\ ac' = AcAfterResolve(a, accounts, settings, s.acc)
          ELSE IF ContextCallSkipped(appSecret, context_key)
          THEN /\ contextMap' = t.map
               /\ ac' = AcAfterResolve(a, accounts, settings, t.acc)
          ELSE /\ contextMap' = s.map
               /\ ac' = [a EXCEPT !.pc = "verify"]
       /\ UNCHANGED <<accounts, accOrder, settings, appSecret, erpDict, act, rs, resp>>
       /\ UNCHANGED batchVars
       /\ UNCHANGED <<gw, payload>>
       /\ UNCHANGED sideVars

\* resolve_account in api_add_category: the vendor context API answers
api_add_context(answer) ==
    LET t == ResolveTail(contextMap, accounts, accOrder, ac.contextKey, ac.appId, answer)
    IN /\ ac.pc = "verify"
       /\ contextMap' = t.map
       /\ ac' = AcAfterResolve(ac, accounts, settings, t.acc)
       /\ UNCHANGED <<accounts, accOrder, settings, appSecret, erpDict, act, rs, resp>>
       /\ UNCHANGED batchVars
       /\ UNCHANGED <<gw, payload>>
       /\ UNCHANGED sideVars

\* ensure_dictionary in api_add_category: the liveness check answers
api_add_dict_checked ==
    /\ ac.pc = "ed_check"
    /\ \E status \in ErpCheckStatuses(erpDict, ac.account_id, ac.dict_id) :
          IF status = 200
          THEN ac' = AcAfterDictionary(ac, ac.dict_id)
          ELSE ac' = [ac EXCEPT !.pc = "ed_create"]
    /\ UNCHANGED lifecycleVars
    /\ UNCHANGED batchVars
    /\ UNCHANGED <<gw, payload>>
    /\ UNCHANGED sideVars

\* ensure_dictionary in api_add_category: the create call answers
api_add_dict_created ==
    /\ ac.pc = "ed_create"
    /\ \E o \in ErpCreateOutcomes(erpDict, ac.account_id) :
          LET r == EnsureDictionaryResult(settings, ac.account_id, o.status)
          IN /\ erpDict' = [erpDict EXCEPT ![ac.account_id] = o.exists]
             /\ settings' = r.settings
             /\ ac' = AcAfterDictionary(ac, r.dict_id)
    /\ UNCHANGED <<accounts, accOrder, contextMap, appSecret, act, rs, resp>>
    /\ UNCHANGED batchVars
    /\ UNCHANGED <<gw, payload>>
    /\ UNCHANGED sideVars

\* add_expense_category in api_add_category answers: lines 940-943
api_add_answered ==
    /\ ac.pc = "add"
    /\ \E o \in ErpAddCategoryOutcomes(erpDict, erpCats, ac.account_id, ac.dict_id, ac.name) :
          /\ erpCats' = [erpCats EXCEPT ![ac.account_id] = o.names]
          /\ ac' = IF add_expense_category(o.status) # "none"
                   THEN AcRespond([ac EXCEPT !.addStatus = o.status], 200, TRUE, "")
                   ELSE AcRespond([ac EXCEPT !.addStatus = o.status], 200, FALSE,
                                  "creation failed")
    /\ UNCHANGED lifecycleVars
    /\ UNCHANGED <<pe, erpOverhead, erpDesc>>
    /\ UNCHANGED <<gw, payload>>
    /\ UNCHANGED sideVars

(***************************************************************************)
(* Specifications                                                          *)
(***************************************************************************)
\* the stores are empty and no handler runs
InitStores ==
    /\ accounts = [a \in Tenants |-> NoAccount]
    /\ accOrder = <<>>
    /\ settings = [a \in Tenants |-> NoDict]
    /\ contextMap = <<>>
    /\ appSecret \in BOOLEAN
    /\ act = ActIdle
    /\ rs = RsIdle
    /\ resp = NoResponse
    /\ pe = PeIdle
    /\ erpCats = [a \in Tenants |-> {}]
    /\ erpDesc = [a \in Tenants |-> [d \in Docs |-> <<>>]]
    /\ gw = NoCall
    /\ ac = AcIdle
    /\ payload = <<>>
    /\ malformed = {}
    /\ st = NoStoreCall
    /\ pe2 = PeIdle
    /\ wh = WhIdle("")

Init ==
    /\ InitStores
    /\ erpDict = [a \in Tenants |-> FALSE]
    /\ erpOverhead = [a \in Tenants |-> [d \in Docs |-> 0]]

Next ==
    \/ \E app_id \in AppIds, account_id \in Tenants, access \in AccessLists :
          activate_app(app_id, account_id, access)
    \/ activate_dict_checked
    \/ activate_dict_created
    \/ \E account_id \in Tenants : deactivate_app(account_id)
    \/ \E account_id \in Tenants : get_status(account_id)
    \/ \E context_key \in SessionKeys \cup {""}, hint \in Tenants \cup {""},
          app_id \in AppIdParams : resolve_account(context_key, hint, app_id)
    \/ \E answer \in VendorAnswers : resolve_account_context(answer)

Spec == Init /\ [][Next]_vars

\* one process-expenses request of an installed tenant
NextBatch ==
    \/ activate_app("app1", "A", <<"tok1">>)
    \/ activate_dict_checked
    \/ activate_dict_created
    \/ \E expenses \in ExpenseLists, year \in Years :
          process_expenses("", "", "", expenses, year)
    \/ process_dict_checked
    \/ process_dict_created
    \/ process_categories_listed
    \/ process_category_added
    \/ process_searched
    \/ process_searched_fuzzy
    \/ process_fetched
    \/ process_updated

\* a deployment without APP_SECRET (resolve_account never calls the vendor);
\* the ERP's documents carry no overhead yet, or what earlier requests left
InitBatch ==
    /\ InitStores
    /\ ~appSecret
    /\ erpDict = [a \in Tenants |-> FALSE]
    /\ \E o \in InitialOverheads : erpOverhead = [a \in Tenants |-> [d \in Docs |-> o]]

SpecBatch == InitBatch /\ [][NextBatch]_vars

\* requests whose document numbers search_document_exact looks up: a document
\* of the year, one dated on the year's first second, a number that differs
\* from a document's by case, a number no document has, and a blank number
NextSearch ==
    \/ activate_app("app1", "A", <<"tok1">>)
    \/ activate_dict_checked
    \/ activate_dict_created
    \/ \E n1 \in {"D1", "D3", "d1", "D9"}, n2 \in {"D1", "D3", " "} :
          process_expenses("", "", "",
              <<[demandNumber |-> n1, expense |-> 5000, category |-> ""],
                [demandNumber |-> n2, expense |-> 5000, category |-> ""]>>, 2024)
    \/ process_dict_checked
    \/ process_dict_created
    \/ process_categories_listed
    \/ process_searched
    \/ process_searched_fuzzy
    \/ process_fetched
    \/ process_updated

SpecSearch == InitBatch /\ [][NextSearch]_vars

\* longest expenses[] list of the request SpecPanel follows
MaxPanelItems == 1

\* one process-expenses request with a session key, while tenants install
NextPanel ==
    \/ \E account_id \in Tenants : activate_app("app1", account_id, <<"tok1">>)
    \/ activate_dict_checked
    \/ activate_dict_created
    \/ \E app_id \in AppIdParams, year \in Years,
          expenses \in {e \in ExpenseLists : Len(e) <= MaxPanelItems} :
          process_expenses("k1", "", app_id, expenses, year)
    \/ \E answer \in VendorAnswers : process_context(answer)
    \/ process_dict_checked
    \/ process_dict_created
    \/ process_categories_listed
    \/ process_category_added
    \/ process_searched
    \/ process_searched_fuzzy
    \/ process_fetched
    \/ process_updated

\* a fresh data directory; the tenants' ERP accounts may hold the dictionary
\* already (an earlier installation created it)
InitPanel ==
    /\ InitStores
    /\ \E held \in BOOLEAN : erpDict = [a \in Tenants |-> held]
    /\ erpOverhead = [a \in Tenants |-> [d \in Docs |-> 0]]

SpecPanel == InitPanel /\ [][NextPanel]_vars

\* POST /api/expense-categories requests while the tenants install
NextCategory ==
    \/ \E account_id \in Tenants : activate_app("app1", account_id, <<"tok1">>)
    \/ activate_dict_checked
    \/ activate_dict_created
    \/ \E context_key \in {"", "k1"}, name \in CategoryNames :
          api_add_category(context_key, "", "", name)
    \/ \E hint \in Tenants : api_add_category("", hint, "", "c1")
    \/ \E answer \in VendorAnswers : api_add_context(answer)
    \/ api_add_dict_checked
    \/ api_add_dict_created
    \/ api_add_answered

SpecCategory == Init /\ [][NextCategory]_vars

\* activations with the payloads the vendor sends, and deactivations
NextActivate ==
    \/ \E access \in PayloadLists : vendor_sends(access)
    \/ \E account_id \in Tenants : activate_app("app1", account_id, payload)
    \/ activate_dict_checked
    \/ activate_dict_created
    \/ \E account_id \in Tenants : deactivate_app(account_id)

SpecActivate == Init /\ [][NextActivate]_vars

\* the session keys of the requests of SpecCap: two new ones, and the oldest
\* and the newest of the stored ones
CapKeys == {"k1", "k2", "s1", "s" \o ToString(ContextMapCap - 1)}

\* tenant A is installed and panel sessions have filled the session map up
\* to one entry below its cap, or up to its cap
InitCap ==
    /\ accounts = [a \in Tenants |->
                     IF a = "A"
                     THEN [app_id |-> "app1", status |-> "active", access_token |-> "tok1"]
                     ELSE NoAccount]
    /\ accOrder = <<"A">>
    /\ settings = [a \in Tenants |-> IF a = "A" THEN DictIdOf("A") ELSE NoDict]
    /\ erpDict = [a \in Tenants |-> a = "A"]
    /\ \E n \in {ContextMapCap - 1, ContextMapCap} :
          contextMap = [i \in 1..n |-> [key |-> "s" \o ToString(i), account_id |-> "A"]]
    /\ appSecret \in BOOLEAN
    /\ act = ActIdle
    /\ rs = RsIdle
    /\ resp = NoResponse
    /\ pe = PeIdle
    /\ erpCats = [a \in Tenants |-> {}]
    /\ erpOverhead = [a \in Tenants |-> [d \in Docs |-> 0]]
    /\ erpDesc = [a \in Tenants |-> [d \in Docs |-> <<>>]]
    /\ gw = NoCall
    /\ ac = AcIdle
    /\ payload = <<>>
    /\ malformed = {}
    /\ st = NoStoreCall
    /\ pe2 = PeIdle
    /\ wh = WhIdle("")

\* panel requests against the full session map
NextCap ==
    \/ \E context_key \in CapKeys, hint \in {"A", ""} :
          resolve_account(context_key, hint, "")
    \/ \E answer \in VendorAnswers : resolve_account_context(answer)

SpecCap == InitCap /\ [][NextCap]_vars

\* the calls of ms_api
NextGateway ==
    \E method \in GatewayMethods, reply \in GatewayReplies : gateway_call(method, reply)

SpecGateway == Init /\ [][NextGateway]_vars

\* calls of the store functions in any order, as the handlers make them
\* between their suspensions, on a data directory whose documents get damaged
NextStore ==
    \/ \E file \in StoreFiles : file_damaged(file)
    \/ \E account_id \in Tenants : store_get_account(account_id)
    \/ store_get_all_active_accounts
    \/ \E account_id \in Tenants, account_data \in AccountRecords :
          store_save_account(account_id, account_data)
    \/ \E account_id \in Tenants : store_get_dictionary_id(account_id)
    \/ \E account_id \in Tenants : store_save_dictionary_id(account_id, DictIdOf(account_id))
    \/ \E context_key \in SessionKeys, account_id \in Tenants :
          store_save_context_mapping(context_key, account_id)
    \/ \E context_key \in SessionKeys : store_get_account_id_from_context(context_key)

SpecStore == Init /\ [][NextStore]_vars

\* the event loop runs every handler that is ready: the store's callers never
\* all stop for good
SpecStoreFair == SpecStore /\ WF_vars(NextStore)

\* tenant A is installed, its dictionary exists and its documents carry no
\* overhead yet
InitRace ==
    /\ accounts = [a \in Tenants |->
                     IF a = "A"
                     THEN [app_id |-> "app1", status |-> "active", access_token |-> "tok1"]
                     ELSE NoAccount]
    /\ accOrder = <<"A">>
    /\ settings = [a \in Tenants |-> IF a = "A" THEN DictIdOf("A") ELSE NoDict]
    /\ erpDict = [a \in Tenants |-> a = "A"]
    /\ contextMap = <<>>
    /\ appSecret = FALSE
    /\ act = ActIdle
    /\ rs = RsIdle
    /\ resp = NoResponse
    /\ pe = PeIdle
    /\ erpCats = [a \in Tenants |-> {}]
    /\ erpOverhead = [a \in Tenants |-> [d \in Docs |-> 0]]
    /\ erpDesc = [a \in Tenants |-> [d \in Docs |-> <<>>]]
    /\ gw = NoCall
    /\ ac = AcIdle
    /\ payload = <<>>
    /\ malformed = {}
    /\ st = NoStoreCall
    /\ pe2 = PeIdle
    /\ wh = WhIdle("")

\* two process-expenses requests of tenant A, each with one adjustment of the
\* document D1, handled at the same time
NextRace ==
    \/ \E expenses \in {e \in ExpenseLists : /\ Len(e) = 1
                                              /\ e[1].demandNumber = "D1"
                                              /\ e[1].expense \in {10000, 5000}} :
          \/ process_expenses("", "A", "", expenses, 2024)
          \/ process_expenses_2("", "A", "", expenses, 2024)
    \/ process_dict_checked
    \/ process_dict_created
    \/ process_categories_listed
    \/ process_searched
    \/ process_searched_fuzzy
    \/ process_fetched
    \/ process_updated
    \/ process_dict_checked_2
    \/ process_dict_created_2
    \/ process_categories_listed_2
    \/ process_searched_2
    \/ process_searched_fuzzy_2
    \/ process_fetched_2
    \/ process_updated_2

SpecRace == InitRace /\ [][NextRace]_vars

\* one process-expenses request of tenant A while the vendor uninstalls and
\* installs the tenant
NextInFlight ==
    \/ activate_app("app1", "A", <<"tok1">>)
    \/ activate_dict_checked
    \/ activate_dict_created
    \/ deactivate_app("A")
    \/ \E expenses \in {e \in ExpenseLists : Len(e) = 1} :
          process_expenses("", "A", "", expenses, 2024)
    \/ process_dict_checked
    \/ process_dict_created
    \/ process_categories_listed
    \/ process_category_added
    \/ process_searched
    \/ process_searched_fuzzy
    \/ process_fetched
    \/ process_updated

SpecInFlight == InitRace /\ [][NextInFlight]_vars

\* tenant A is installed and a panel request has resolved the session key k1
\* to it: the entry k1 -> A is in the session map
InitSession ==
    /\ accounts = [a \in Tenants |->
                     IF a = "A"
                     THEN [app_id |-> "app1", status |-> "active", access_token |-> "tok1"]
                     ELSE NoAccount]
    /\ accOrder = <<"A">>
    /\ settings = [a \in Tenants |-> IF a = "A" THEN DictIdOf("A") ELSE NoDict]
    /\ erpDict = [a \in Tenants |-> a = "A"]
    /\ contextMap = <<[key |-> "k1", account_id |-> "A"]>>
    /\ appSecret \in BOOLEAN
    /\ act = ActIdle
    /\ rs = RsIdle
    /\ resp = NoResponse
    /\ pe = PeIdle
    /\ erpCats = [a \in Tenants |-> {}]
    /\ erpOverhead = [a \in Tenants |-> [d \in Docs |-> 0]]
    /\ erpDesc = [a \in Tenants |-> [d \in Docs |-> <<>>]]
    /\ gw = NoCall
    /\ ac = AcIdle
    /\ payload = <<>>
    /\ malformed = {}
    /\ st = NoStoreCall
    /\ pe2 = PeIdle
    /\ wh = WhIdle("")

\* later panel requests with the session key k1 and no accountId, while the
\* vendor installs and uninstalls the tenants
NextSession ==
    \/ \E account_id \in Tenants : activate_app("app1", account_id, <<"tok1">>)
    \/ activate_dict_checked
    \/ activate_dict_created
    \/ \E account_id \in Tenants : deactivate_app(account_id)
    \/ \E app_id \in AppIdParams : resolve_account("k1", "", app_id)
    \/ \E answer \in VendorAnswers : resolve_account_context(answer)

SpecSession == InitSession /\ [][NextSession]_vars

\* a deployment of src/app.py under any value of the environment variable
InitWebhook ==
    /\ accounts = [a \in Tenants |-> NoAccount]
    /\ accOrder = <<>>
    /\ settings = [a \in Tenants |-> NoDict]
    /\ contextMap = <<>>
    /\ appSecret = FALSE
    /\ erpDict = [a \in Tenants |-> FALSE]
    /\ act = ActIdle
    /\ rs = RsIdle
    /\ resp = NoResponse
    /\ pe = PeIdle
    /\ erpCats = [a \in Tenants |-> {}]
    /\ erpOverhead = [a \in Tenants |-> [d \in Docs |-> 0]]
    /\ erpDesc = [a \in Tenants |-> [d \in Docs |-> <<>>]]
    /\ gw = NoCall
    /\ ac = AcIdle
    /\ payload = <<>>
    /\ malformed = {}
    /\ st = NoStoreCall
    /\ pe2 = PeIdle
    /\ \E env \in EnvSecrets : wh = WhIdle(env)

\* the vendor's (or anybody's) requests to the four signed endpoints
NextWebhook ==
    \E raw \in RawBodies, headers \in [1..3 -> SignatureValues] :
        \/ app_status(raw, headers)
        \/ app_installed(raw, headers)
        \/ app_uninstalled(raw, headers)
        \/ iframe_handler(raw, headers)

SpecWebhook == InitWebhook /\ [][NextWebhook]_vars

(***************************************************************************)
(* Properties                                                              *)
(***************************************************************************)
ActiveTenants == {a \in Tenants : IsActiveWithToken(accounts[a])}

ValidHint(h) == h # "" /\ IsActiveWithToken(get_account(accounts, h))

\* C1: every stored tenant record with status 'active' has a non-null
\* credential, after any sequence of activation and deactivation webhooks.
C1_ActiveHasCredential ==
    \A a \in Tenants : accounts[a].status = "active" => accounts[a].access_token # NoToken

\* C2: a resolve_account call whose accountId hint names an active tenant with
\* a credential returns that tenant at once (it never waits for the vendor),
\* whatever the session key, the session map and the other stored tenants.
C2_HintWins ==
    [][\A h \in Tenants :
          (/\ rs.pc = "idle"
           /\ ValidHint(h)
           /\ \/ resp'.op = "resolve" /\ resp'.accountId = h
              \/ rs'.pc = "verify" /\ rs'.accountId = h)
          => (resp'.op = "resolve" /\ resp'.acc = h /\ rs'.pc = "idle")]_vars

\* C2 witness: the hint A was returned although the session key was mapped to
\* nothing else than what the call wrote, and B is an active tenant as well.
C2_Witness ==
    /\ resp.op = "resolve" /\ resp.accountId = "A" /\ resp.acc = "A"
    /\ resp.contextKey = "k1" /\ resp.appId = "app1"
    /\ ActiveTenants = {"A", "B"}
    /\ MappedAccount(contextMap, "k1") = "A"
    /\ MappedAccount(contextMap, "k2") = "B"

\* C3: with two or more active tenants, no valid hint, no valid cached mapping
\* for the session key and no tenant from the verification call,
\* resolve_account returns no tenant, for every combination of query
\* parameters.
C3_NeverArbitrary ==
    [][(/\ resp'.op = "resolve"
        /\ Cardinality(ActiveTenants) >= 2
        /\ ~ValidHint(resp'.accountId)
        /\ ~IsActiveWithToken(get_account(accounts,
                                 MappedAccount(contextMap, resp'.contextKey)))
        /\ resp'.answer = "")
       => resp'.acc = ""]_vars

\* C4: with no hint and no session key, resolve_account returns a tenant if
\* and only if exactly one active tenant with a credential is stored, and then
\* that tenant.
C4_SingleTenantFallback ==
    (resp.op = "resolve" /\ resp.accountId = "" /\ resp.contextKey = "")
    => IF Cardinality(ActiveTenants) = 1
       THEN resp.acc \in ActiveTenants
       ELSE resp.acc = ""

\* C5: a resolve_account call with a session key whose entry points to a
\* tenant that is not active-with-credential (and no valid hint) removes that
\* entry, goes on to the verification call (when APP_SECRET is set) and the
\* later steps, and never returns the stale tenant: what it returns, at once
\* or after the vendor answered, is an active tenant with a credential.
C5_StaleMappingEvicted ==
    /\ [](resp.op = "resolve" /\ resp.evicted # "" /\ resp.acc # ""
            => IsActiveWithToken(accounts[resp.acc]))
    /\ [][\A k \in SessionKeys :
          LET stale == MappedAccount(contextMap, k)
          IN (/\ rs.pc = "idle"
              /\ stale # ""
              /\ ~IsActiveWithToken(get_account(accounts, stale))
              /\ \/ resp'.op = "resolve" /\ resp'.contextKey = k
                                         /\ ~ValidHint(resp'.accountId)
                 \/ rs'.pc = "verify" /\ rs'.contextKey = k)
             => (/\ MappedAccount(contextMap', k) # stale
                 /\ (rs'.pc = "verify") <=> appSecret
                 /\ resp'.op = "resolve" =>
                       /\ resp'.acc # stale
                       /\ resp'.evicted = stale
                       /\ Cardinality(ActiveTenants) = 1 => resp'.acc \in ActiveTenants
                       /\ Cardinality(ActiveTenants) = 0 => resp'.acc = "")]_vars

\* C5 witness: a call deleted the stale entry of its session key, waited for
\* the vendor, was told the stale tenant again and answered another tenant.
C5_Witness ==
    /\ resp.op = "resolve" /\ resp.evicted = "A" /\ resp.answer = "A"
    /\ ~IsActiveWithToken(accounts["A"])
    /\ resp.acc = "B"
    /\ MappedAccount(contextMap, resp.contextKey) = "B"

\* C6: every entry of the session map references a tenant that is active and
\* has a credential, in every reachable state.
C6_MappingsReferenceActive ==
    \A i \in 1..Len(contextMap) :
        IsActiveWithToken(get_account(accounts, contextMap[i].account_id))

\* C7: a tenant that was deactivated and not activated since has status
\* 'inactive', no credential and no session-map entry; no resolve_account
\* call, in flight or new, returns it or maps a key to it.
C7_DeactivatedStaysOut ==
    /\ \A a \in Tenants :
          accounts[a].status = "inactive" =>
             /\ accounts[a].access_token = NoToken
             /\ \A i \in 1..Len(contextMap) : contextMap[i].account_id # a
    /\ (resp.op = "deactivate" /\ accounts[resp.accountId].status # "absent")
          => accounts[resp.accountId].status = "inactive"
    /\ (resp.op = "resolve" /\ resp.acc # "")
          => accounts[resp.acc].status # "inactive"

\* C7 witness: a resolve call that was waiting for the vendor while A was
\* deactivated is told A, and answers without A.
C7_Witness ==
    /\ resp.op = "resolve" /\ resp.answer = "A" /\ resp.acc # "A"
    /\ accounts["A"].status = "inactive"
    /\ resp.contextKey # ""

\* C8: the status query answers 'Activated' exactly when a record of the
\* tenant exists with status 'active', and 'SettingsRequired' otherwise.
C8_StatusReflectsRecord ==
    resp.op = "status" =>
       /\ resp.status \in {"Activated", "SettingsRequired"}
       /\ resp.status = "Activated" <=> accounts[resp.accountId].status = "active"

\* C8 witness: the status query of a deactivated tenant answered SettingsRequired.
C8_Witness ==
    /\ resp.op = "status" /\ resp.status = "SettingsRequired"
    /\ accounts[resp.accountId].status = "inactive"

\* C9 as stated: an adjustment with a blank document number (empty or
\* whitespace only) or an amount zero or negative produces neither a success
\* nor an error record and causes no ERP call at all, not even the creation of
\* the category it alone carries; and results plus errorDetails count the
\* other adjustments of a finished batch.
C9_SkippedNoErpCall ==
    LET skipped == {i \in 1..Len(pe.expenses) :
                       \/ pe.expenses[i].demandNumber \in {"", " "}
                       \/ pe.expenses[i].expense <= 0}
        recorded == {pe.results[j].item : j \in 1..Len(pe.results)}
                       \cup {pe.errors[j].item : j \in 1..Len(pe.errors)}
    IN /\ \A i \in skipped :
             /\ i \notin recorded
             /\ pe.itemCalls[i] = 0
             /\ (\A j \in 1..Len(pe.expenses) :
                    pe.expenses[j].category = pe.expenses[i].category => j \in skipped)
                   => pe.expenses[i].category \notin pe.catCalls
       /\ (pe.pc = "done" /\ pe.status = 200)
             => Len(pe.results) + Len(pe.errors) = Len(pe.expenses) - Cardinality(skipped)

\* C9 amended: an adjustment with a blank document number or an amount zero
\* or negative produces neither a success nor an error record and causes no
\* search, fetch or update call for a document (the category it carries may
\* still be created in the ERP); and results plus errorDetails count the other
\* adjustments of a finished batch.
C9_SkippedNoRecord ==
    LET skipped == {i \in 1..Len(pe.expenses) :
                       \/ pe.expenses[i].demandNumber \in {"", " "}
                       \/ pe.expenses[i].expense <= 0}
        recorded == {pe.results[j].item : j \in 1..Len(pe.results)}
                       \cup {pe.errors[j].item : j \in 1..Len(pe.errors)}
    IN /\ \A i \in skipped : i \notin recorded /\ pe.itemCalls[i] = 0
       /\ (pe.pc = "done" /\ pe.status = 200)
             => Len(pe.results) + Len(pe.errors) = Len(pe.expenses) - Cardinality(skipped)

\* C9 witness: a finished batch of an adjustment with a blank document number,
\* whose category was sent to the ERP, and an adjustment that was applied.
C9_Witness ==
    /\ pe.pc = "done" /\ pe.status = 200
    /\ Len(pe.expenses) = 2
    /\ pe.expenses[1].demandNumber = " " /\ pe.expenses[1].category \in pe.catCalls
    /\ pe.itemCalls = <<0, 3>>
    /\ Len(pe.results) = 1 /\ pe.results[1].item = 2 /\ Len(pe.errors) = 0

\* C10: every successful update of a document stores the total stored before
\* it plus the amount in integer minor units (amount x 100); 100.00 and 50.00
\* applied in either order to a document at 0 leave exactly 15000.
C10_AdditiveMinorUnits ==
    [][(pe.pc = "put" /\ Len(pe'.results) > Len(pe.results))
          => erpOverhead'[pe.account_id][pe.doc]
                = erpOverhead[pe.account_id][pe.doc] + pe.expenses[pe.idx].expense]_vars

\* C11: when an adjustment fails (not found, fetch failed, write rejected)
\* exactly one error record is added, for that adjustment, the loop goes on
\* with the next adjustment that is not skipped, and the batch ends with the
\* summary response (status 200) in which every adjustment that is not skipped
\* has exactly one record.
C11_FailureIsolated ==
    /\ [][Len(pe'.errors) > Len(pe.errors) =>
            /\ Len(pe'.errors) = Len(pe.errors) + 1
            /\ SubSeq(pe'.errors, 1, Len(pe.errors)) = pe.errors
            /\ pe'.errors[Len(pe'.errors)].item = pe.idx
            /\ pe'.results = pe.results
            /\ LET later == {i \in (pe.idx + 1)..Len(pe.expenses) :
                                /\ pe.expenses[i].demandNumber \notin {"", " "}
                                /\ pe.expenses[i].expense > 0}
               IN IF later = {}
                  THEN pe'.pc = "done" /\ pe'.status = 200
                  ELSE /\ pe'.pc = "search"
                       /\ pe'.idx \in later
                       /\ \A i \in later : pe'.idx <= i]_vars
    /\ []((pe.pc = "done" /\ pe.status = 200)
            => \A i \in 1..Len(pe.expenses) :
                  (/\ pe.expenses[i].demandNumber \notin {"", " "}
                   /\ pe.expenses[i].expense > 0)
                  => Cardinality({j \in 1..Len(pe.results) : pe.results[j].item = i})
                       + Cardinality({j \in 1..Len(pe.errors) : pe.errors[j].item = i})
                     = 1)

\* C11 witness: the write of the first adjustment was rejected, the second
\* adjustment was applied, and the batch was answered.
C11_Witness ==
    /\ pe.pc = "done" /\ pe.status = 200
    /\ Len(pe.expenses) = 2
    /\ Len(pe.errors) = 1 /\ pe.errors[1].item = 1 /\ pe.errors[1].error = "update"
    /\ Len(pe.results) = 1 /\ pe.results[1].item = 2

\* C12: an adjustment whose document was found and fetched is recorded as an
\* error exactly when the gateway status of its PUT is not 2xx, and as a
\* success when that status is any 2xx code.
C12_WriteStatusDecides ==
    [][pe.pc = "put" =>
          IF pe'.putStatus \in 200..299
          THEN Len(pe'.results) = Len(pe.results) + 1 /\ pe'.errors = pe.errors
          ELSE Len(pe'.errors) = Len(pe.errors) + 1 /\ pe'.results = pe.results]_vars

\* C13: a process-expenses request with no tenant-id hint and an unmapped
\* session key, whose vendor verification fails (no answer, or no call at all
\* without APP_SECRET) while two active tenants are stored, is answered with
\* status 400 and has issued no ERP call with a tenant's credential.
C13_AmbiguousBatchRejected ==
    [][(/\ Cardinality(ActiveTenants) = 2
        /\ MappedAccount(contextMap, pe'.contextKey) = ""
        /\ pe'.contextKey # "" /\ pe'.accountId = ""
        /\ \/ pe.pc = "idle" /\ pe'.pc \notin {"idle", "verify"}
           \/ pe.pc = "verify" /\ pe'.pc # "verify" /\ pe'.answer = "")
       => (pe'.pc = "done" /\ pe'.status = 400 /\ pe'.token = NoToken)]_vars

\* C14: the error a panel endpoint answers when tenant resolution failed is a
\* 4xx response from which the caller can tell zero active tenants from two or
\* more: the body answered in one case is never the body of the other case.
C14_ResolutionErrorsDistinct ==
    (pe.pc = "done" /\ pe.status = 400) =>
        /\ pe.body.status \in 400..499
        /\ Cardinality(ActiveTenants) = 0
              => \A n \in 2..Cardinality(Tenants) :
                    pe.body # ResolutionFailure("process-expenses", n)
        /\ Cardinality(ActiveTenants) >= 2
              => pe.body # ResolutionFailure("process-expenses", 0)

\* C15: ms_api never raises and its result always carries a numeric status:
\* the HTTP status code for every HTTP response, whatever its body, and 0
\* exactly when the request failed at transport level.
C15_GatewayStatus ==
    gw.called =>
        /\ ~gw.result.raised
        /\ gw.result.has_status
        /\ gw.reply.kind = "http" => gw.result.status = gw.reply.status
        /\ gw.result.status = 0 <=> gw.reply.kind = "transport"

\* C16: when the creation of the dictionary is answered with status 412,
\* ensure_dictionary returns the cached dictionary id if the tenant has one,
\* otherwise the id of the dictionary the ERP holds (found by a scan by name),
\* and no id only when neither exists.
C16_ExistingDictionaryFound ==
    [][(pe.pc = "ed_create" /\ pe'.createStatus = 412) =>
          pe'.dict_id = IF settings[pe.account_id] # NoDict
                        THEN settings[pe.account_id]
                        ELSE IF erpDict[pe.account_id]
                        THEN DictIdOf(pe.account_id)
                        ELSE NoDict]_vars

\* C17: adding a category whose name the ERP reports as existing (status 412)
\* is answered as a success and leaves the dictionary as it was; every
\* successful add leaves the name in the dictionary, so the same name added
\* twice in a row succeeds both times and is held once.
C17_DuplicateNameSucceeds ==
    [][ac.pc = "add" =>
          /\ ac'.addStatus = 412 => (ac'.success /\ erpCats' = erpCats)
          /\ ac'.addStatus \in {200, 201} => ac'.success
          /\ ac'.success => (/\ ac.name \in erpCats'[ac.account_id]
                             /\ erpCats'[ac.account_id] \ {ac.name}
                                   = erpCats[ac.account_id] \ {ac.name})]_vars

\* C17 witness: the name added with success by the request before was added
\* again, the ERP answered 412, and the request succeeded.
C17_Witness ==
    /\ ac.pc = "done" /\ ac.success /\ ac.addStatus = 412
    /\ ac.prev = [name |-> ac.name, success |-> TRUE]
    /\ ac.name \in erpCats[ac.account_id]

\* C18: an activation stores, in the place of any previous record of the
\* tenant id, a record with status 'active' whose credential is the
\* access_token of the first entry of payload.access[] that has a non-empty
\* access_token (none when no entry has one).
C18_FirstUsableCredential ==
    [][\A a \in Tenants :
          (/\ act.pc = "idle"
           /\ \/ resp'.op = "activate" /\ resp'.accountId = a
              \/ act'.pc # "idle" /\ act'.account_id = a)
          => LET usable == {i \in 1..Len(payload) : payload[i] \notin {NoToken, ""}}
             IN /\ accounts'[a].status = "active"
                /\ accounts'[a].app_id = "app1"
                /\ IF usable = {}
                   THEN accounts'[a].access_token = NoToken
                   ELSE \E i \in usable :
                           /\ \A j \in usable : i <= j
                           /\ accounts'[a].access_token = payload[i]]_vars

\* C18 witness: A, activated before, is activated again with a payload whose
\* first entry has an empty token and whose second has tok2.
C18_Witness ==
    /\ act.pc # "idle" /\ act.account_id = "A"
    /\ payload = <<"", "tok2">>
    /\ accounts["A"] = [app_id |-> "app1", status |-> "active", access_token |-> "tok2"]
    /\ erpDict["A"]

\* C19: no operation removes a tenant record: a tenant id an activation has
\* stored stays a key of the accounts store, at its place in the store, in
\* every later step.
C19_RecordsRetained ==
    [][\A a \in Tenants :
          accounts[a].status # "absent" =>
             /\ accounts'[a].status # "absent"
             /\ Len(accOrder') >= Len(accOrder)
             /\ SubSeq(accOrder', 1, Len(accOrder)) = accOrder]_vars

\* C19 witness: both tenants were deactivated and both records are kept.
C19_Witness ==
    /\ resp.op = "deactivate"
    /\ accOrder = <<"B", "A">>
    /\ \A a \in Tenants : accounts[a] = [app_id |-> "app1", status |-> "inactive",
                                          access_token |-> NoToken]

\* C20: the session map never holds more than 10000 entries; a call that
\* returns a tenant for a session key leaves the key mapped to it; a call that
\* writes a mapping leaves the entry just written as the newest one, after the
\* other entries in their order of creation, of which it has dropped the
\* oldest ones, and only as many as the cap requires.
C20_MapCapKeepsNewest ==
    /\ [](Len(contextMap) <= 10000)
    /\ [][(resp'.op = "resolve" /\ resp'.acc # "" /\ resp'.contextKey # "") =>
            \E i \in 1..Len(contextMap') :
               contextMap'[i] = [key |-> resp'.contextKey, account_id |-> resp'.acc]]_vars
    /\ [][(resp'.op = "resolve" /\ resp'.acc # "" /\ contextMap' # contextMap) =>
            LET others == SelectSeq(contextMap, LAMBDA e : e.key # resp'.contextKey)
                dropped == Len(others) + 1 - Len(contextMap')
            IN /\ dropped >= 0
               /\ dropped = IF Len(others) + 1 > 10000 THEN Len(others) + 1 - 10000 ELSE 0
               /\ contextMap'[Len(contextMap')]
                     = [key |-> resp'.contextKey, account_id |-> resp'.acc]
               /\ SubSeq(contextMap', 1, Len(contextMap') - 1)
                     = SubSeq(others, dropped + 1, Len(others))]_vars

\* C20 witness: the map is full, a new key was written last and the oldest
\* entry s1 is gone.
C20_Witness ==
    /\ Len(contextMap) = 10000
    /\ resp.op = "resolve" /\ resp.contextKey = "k1"
    /\ contextMap[10000].key = "k1"
    /\ contextMap[1].key = "s2"

\* C22: a store function called while the document it loads is malformed on
\* disk does not raise and returns what it returns on the empty collection:
\* no record, no active tenant, no dictionary id, no mapped tenant; a save
\* writes the empty default plus its own entry and leaves the document well
\* formed, a call that saves nothing leaves the document as it was.
C22_MalformedLoadsDefault ==
    /\ ~st.raised
    /\ (st.op = "get_account" /\ "accounts" \in st.bad) => st.acc = NoAccount
    /\ (st.op = "get_all_active_accounts" /\ "accounts" \in st.bad) => st.list = <<>>
    /\ (st.op = "get_dictionary_id" /\ "settings" \in st.bad) => st.id = NoDict
    /\ (st.op = "save_account" /\ "accounts" \in st.bad) =>
          /\ accounts[st.key].status # "absent"
          /\ \A b \in Tenants \ {st.key} : accounts[b] = NoAccount
          /\ accOrder = <<st.key>>
          /\ "accounts" \notin malformed
    /\ (st.op = "save_dictionary_id" /\ "settings" \in st.bad) =>
          /\ settings[st.key] = DictIdOf(st.key)
          /\ \A b \in Tenants \ {st.key} : settings[b] = NoDict
          /\ "settings" \notin malformed
    /\ (st.op = "save_context_mapping" /\ "accounts" \in st.bad) =>
          (contextMap = st.mapBefore /\ malformed = st.bad)
    /\ (/\ st.op = "save_context_mapping"
        /\ "accounts" \notin st.bad /\ "context_map" \in st.bad
        /\ st.accountsBefore[st.id].status = "active") =>
          /\ contextMap = <<[key |-> st.key, account_id |-> st.id]>>
          /\ "context_map" \notin malformed
    /\ (st.op = "get_account_id_from_context" /\ "context_map" \in st.bad) =>
          (st.id = "" /\ contextMap = st.mapBefore /\ malformed = st.bad)
    /\ (/\ st.op = "get_account_id_from_context"
        /\ "context_map" \notin st.bad /\ "accounts" \in st.bad
        /\ HasKey(st.mapBefore, st.key)) =>
          (st.id = "" /\ ~HasKey(contextMap, st.key))

\* C22 witness: save_account was called for a tenant while accounts.json was
\* malformed; the record of the other tenant, stored before the damage, is gone.
C22_Witness ==
    /\ st.op = "save_account" /\ "accounts" \in st.bad
    /\ \E b \in Tenants \ {st.key} :
          st.accountsBefore[b].status = "active" /\ accounts[b] = NoAccount
    /\ accounts[st.key].status = "active"

\* a store call has just saved a well-formed document from which an entry
\* that another mutation had stored is missing or changed
EntryDiscarded ==
    \/ /\ st.op = "save_account" /\ "accounts" \notin st.bad
       /\ \E b \in Tenants \ {st.key} : accounts[b] # st.accountsBefore[b]
    \/ /\ st.op = "save_dictionary_id" /\ "settings" \notin st.bad
       /\ \E b \in Tenants \ {st.key} : settings[b] # st.settingsBefore[b]
    \/ /\ st.op \in {"save_context_mapping", "get_account_id_from_context"}
       /\ "context_map" \notin st.bad
       /\ \E i \in 1..Len(st.mapBefore) :
             /\ st.mapBefore[i].key # st.key
             /\ \A j \in 1..Len(contextMap) : contextMap[j] # st.mapBefore[i]

C21_BindingTenantScoped ==
    [][/\ (act' # act /\ act.pc = "ed_create") =>
             \A b \in Tenants \ {act.account_id} : settings'[b] = settings[b]
       /\ (ac' # ac /\ ac.pc = "ed_create") =>
             \A b \in Tenants \ {ac.account_id} : settings'[b] = settings[b]
       /\ (~(act' # act /\ act.pc = "ed_create") /\ ~(ac' # ac /\ ac.pc = "ed_create"))
             => settings' = settings
       /\ (ac.pc \in {"ed_check", "ed_create"} /\ ac'.pc = "add") =>
             /\ ac'.dict_id = settings'[ac.account_id]
             /\ \A b \in Tenants \ {ac.account_id} : settings'[b] # ac'.dict_id]_vars

\* C21 witness: both tenants have a binding, and ensure_dictionary has just
\* returned B's id to a request of B while A's binding is another id.
C21_Witness ==
    /\ ac.pc = "add" /\ ac.account_id = "B" /\ ac.dict_id = DictIdOf("B")
    /\ settings["A"] = DictIdOf("A") /\ settings["B"] = DictIdOf("B")
    /\ act.pc = "ed_check" /\ act.account_id = "A"

\* C23: when two process-expenses requests have each recorded a successful
\* adjustment of the same document, whatever the order of their steps, the
\* document's stored overhead is its initial total (0) plus both amounts in
\* minor units, and its description holds the audit lines of both.
C23_ConcurrentAdjustmentsAdd ==
    (/\ pe.pc = "done" /\ pe2.pc = "done"
     /\ Len(pe.results) = 1 /\ Len(pe2.results) = 1
     /\ pe.doc = pe2.doc)
    => /\ erpOverhead["A"][pe.doc] = pe.expenses[1].expense + pe2.expenses[1].expense
       /\ Len(erpDesc["A"][pe.doc]) = 2
       /\ \E i, j \in 1..2 :
             /\ i # j
             /\ erpDesc["A"][pe.doc][i] = pe.expenses[1].expense
             /\ erpDesc["A"][pe.doc][j] = pe2.expenses[1].expense

\* C25: a resolve_account call whose session key is mapped to a tenant that
\* is active with a credential, and whose hint is absent or not valid, returns
\* the mapped tenant at once, without the vendor verification call, and leaves
\* the session map exactly as it was (entries and their order of creation).
C25_CachedMappingReadOnly ==
    [][\A k \in SessionKeys :
          LET m == MappedAccount(contextMap, k)
          IN (/\ rs.pc = "idle"
              /\ m # ""
              /\ IsActiveWithToken(get_account(accounts, m))
              /\ \/ resp'.op = "resolve" /\ resp'.contextKey = k
                                         /\ ~ValidHint(resp'.accountId)
                 \/ rs'.pc = "verify" /\ rs'.contextKey = k)
             => (/\ resp'.op = "resolve" /\ resp'.acc = m
                 /\ rs'.pc = "idle"
                 /\ contextMap' = contextMap)]_vars

\* C25 witness: with two active tenants, no hint and no appId, the key k1,
\* whose entry is the older of two, was resolved to the tenant it is mapped to
\* and is still the older entry.
C25_Witness ==
    /\ resp.op = "resolve" /\ resp.contextKey = "k1" /\ resp.accountId = ""
    /\ resp.appId = "" /\ resp.acc = "B" /\ resp.answer = ""
    /\ ActiveTenants = {"A", "B"}
    /\ appSecret
    /\ Len(contextMap) = 2
    /\ contextMap[1] = [key |-> "k1", account_id |-> "B"]

\* C27: when the vendor verification fails (the call fails or answers no
\* tenant, or APP_SECRET is missing so that no call is made), resolve_account
\* still returns: the only active tenant when exactly one is stored, else no
\* tenant; and it maps the session key to a tenant only in the first case.
C27_VerificationFailureFallsThrough ==
    [][(/\ resp'.op = "resolve"
        /\ resp'.contextKey # ""
        /\ resp'.answer = ""
        /\ \/ rs.pc = "verify"
           \/ /\ rs.pc = "idle" /\ ~appSecret
              /\ ~ValidHint(resp'.accountId)
              /\ ~IsActiveWithToken(get_account(accounts,
                                       MappedAccount(contextMap, resp'.contextKey))))
       => IF Cardinality(ActiveTenants) = 1
          THEN /\ resp'.acc \in ActiveTenants
               /\ MappedAccount(contextMap', resp'.contextKey) = resp'.acc
          ELSE /\ resp'.acc = ""
               /\ MappedAccount(contextMap', resp'.contextKey) = ""]_vars

\* C30: whichever step of resolve_account returns a tenant, the record of that
\* tenant in the accounts store has status 'active' and a credential that is
\* set and not empty when resolve_account returns.
C30_ReturnedTenantUsable ==
    (resp.op = "resolve" /\ resp.acc # "") =>
        /\ accounts[resp.acc].status = "active"
        /\ accounts[resp.acc].access_token \notin {NoToken, ""}

\* C30 witness: the single-tenant fallback returned A while B is stored as
\* active without a credential.
C30_Witness ==
    /\ resp.op = "resolve" /\ resp.acc = "A"
    /\ resp.accountId = "" /\ resp.contextKey = "" /\ resp.appId = ""
    /\ accounts["B"].status = "active" /\ accounts["B"].access_token = NoToken

\* C26: every ensure_dictionary call that the ERP answered (no transport
\* failure of its create call) returns the id of the one dictionary the tenant
\* has in the ERP, whether the call created it, found its cached id alive or
\* was told that it exists, and whatever other calls ran before or beside it.
C26_GetOrCreateReturnsTheDictionary ==
    [][(/\ pe.pc \in {"ed_check", "ed_create"}
        /\ pe'.pc \notin {"ed_check", "ed_create"}
        /\ pe'.createStatus # 0)
       => (/\ erpDict'[pe.account_id]
           /\ pe'.dict_id = DictIdOf(pe.account_id))]_vars

\* C28: the adjustments of a batch are handled one at a time in input order:
\* ERP calls have been issued only for adjustments up to the current one,
\* every earlier adjustment that is not skipped has its record already, the
\* current one has none while a call of it is in flight, and the success
\* records and the error records are each in input order.
C28_SequentialInOrder ==
    LET recorded == {pe.results[j].item : j \in 1..Len(pe.results)}
                       \cup {pe.errors[j].item : j \in 1..Len(pe.errors)}
    IN /\ \A i \in 1..Len(pe.expenses) :
             /\ pe.itemCalls[i] > 0 => i <= pe.idx
             /\ (/\ i < pe.idx
                 /\ pe.expenses[i].demandNumber \notin {"", " "}
                 /\ pe.expenses[i].expense > 0) => (i \in recorded /\ pe.itemCalls[i] > 0)
             /\ i \in recorded => i <= pe.idx
       /\ pe.pc \in {"search", "search_fuzzy", "fetch", "put"}
             => (pe.idx \notin recorded /\ pe.itemCalls[pe.idx] > 0)
       /\ \A j, k \in 1..Len(pe.results) :
             j < k => pe.results[j].item < pe.results[k].item
       /\ \A j, k \in 1..Len(pe.errors) :
             j < k => pe.errors[j].item < pe.errors[k].item

\* C28 witness: the first search of the second adjustment is in flight after
\* the three calls of the first adjustment were answered and recorded.
C28_Witness ==
    /\ pe.pc = "search" /\ pe.idx = 2
    /\ pe.itemCalls = <<3, 1>>
    /\ Len(pe.results) = 1 /\ pe.results[1].item = 1
    /\ Len(pe.errors) = 0
\* C29: search_document_exact asks for the exact name first; a failure is
\* reported only after the substring query (the exact query alone never ends
\* the search without a document), and an exact query the ERP answered leaves
\* no document of that name dated within [Jan 1, Dec 31] of the year unfound
C29_ExactThenFuzzy ==
    [][pe.pc = "search" =>
         /\ Len(pe'.errors) = Len(pe.errors)
         /\ (pe'.pc = "search_fuzzy" /\ pe'.exactStatus = 200) =>
               \A d \in Docs :
                   ~(DocName(d) = Strip(pe.expenses[pe.idx].demandNumber)
                       /\ DocYear(d) = pe.year)]_vars

\* C31: while tenant A is deactivated (its deactivation has completed and no
\* activation has followed), no step of a process-expenses request that
\* resolved A sends a further ERP call with A's credential
C31_NoCallAfterDeactivation ==
    [][(accounts["A"].status = "inactive" /\ pe.account_id = "A" /\ pe.token = "tok1"
          /\ pe' # pe)
       => pe'.pc \notin {"ed_check", "ed_create", "get_cats", "add_cat",
                         "search", "search_fuzzy", "fetch", "put"}]_vars

\* C32: the session key k1 was resolved to tenant A; a later resolve_account
\* call with k1 and no accountId returns the other tenant B only when the
\* verification call of that request named B, or when k1 had been resolved to
\* B since (its entry pointed to B)
C32_SessionKeyStable ==
    [][(resp'.op = "resolve" /\ resp'.contextKey = "k1" /\ resp'.accountId = ""
          /\ resp'.acc = "B")
       => (resp'.answer = "B" \/ MappedAccount(contextMap, "k1") = "B")]_vars

\* C33: a PUT is sent only by update_document_overhead after its GET of the
\* document answered 200, for an adjustment that is not skipped, and to the
\* document the search returned, whose name equals the adjustment's document
\* number; once the PUT is answered the loop moves to a later adjustment or
\* ends, and it never steps back: at most one PUT per adjustment, and none
\* when the search or the fetch failed
C33_OneWriteToTheNamedDocument ==
    /\ [][(pe'.pc = "put" /\ pe' # pe) =>
            /\ pe.pc = "fetch"
            /\ pe'.fetchStatus = 200
            /\ pe'.idx = pe.idx /\ pe'.doc = pe.doc
            /\ ~ItemSkipped(pe.expenses[pe.idx])
            /\ DocName(pe.doc) = Strip(pe.expenses[pe.idx].demandNumber)]_vars
    /\ [][(pe.pc = "put" /\ pe' # pe) => (pe'.pc = "done" \/ pe'.idx > pe.idx)]_vars
    /\ [][(pe.pc \in {"search", "search_fuzzy", "fetch"} /\ pe' # pe) =>
            /\ pe'.idx >= pe.idx
            /\ erpOverhead' = erpOverhead /\ erpDesc' = erpDesc]_vars

\* C33 witness: the first adjustment names no document and was given up after
\* both searches; the second was found by the substring search among two
\* candidates, fetched, and written once
C33_Witness ==
    /\ pe.pc = "done" /\ pe.status = 200
    /\ pe.expenses[1].demandNumber = "D9" /\ pe.expenses[2].demandNumber = "D1"
    /\ pe.itemCalls = <<2, 4>>
    /\ Len(pe.errors) = 1 /\ pe.errors[1].item = 1
    /\ Len(pe.results) = 1 /\ pe.results[1].item = 2
    /\ pe.doc = "doc1" /\ pe.fetchStatus = 200 /\ pe.putStatus = 200
    /\ erpDesc["A"]["doc1"] = <<5000>> /\ erpDesc["A"]["doc2"] = <<>>

\* C34: process_expenses sends a category-creation call only when
\* ensure_dictionary returned a dictionary id, and then only for a name that,
\* compared without regard to case, it has not sent before in this request
C34_CreationNeedsDictionary ==
    [][(pe'.pc = "add_cat" /\ pe' # pe) =>
          /\ pe'.dict_id # NoDict
          /\ Lower(pe'.cat) \notin {Lower(c) : c \in pe.catCalls}]_vars

\* C35: with APP_SECRET set, a request to the status, installed, uninstalled
\* or iframe endpoint whose signature header is not the hex HMAC-SHA256 of its
\* raw body under APP_SECRET is answered 403 and not processed; a request
\* without that signature is accepted only when APP_SECRET is empty
C35_SignatureRequired ==
    wh.endpoint \in {"status", "installed", "uninstalled", "iframe"} =>
       LET matches == get_signature_from_headers(wh.headers)
                         = hmac_hexdigest(APP_SECRET(wh.env), wh.raw)
       IN /\ (APP_SECRET(wh.env) # "" /\ ~matches)
                => (wh.status = 403 /\ ~wh.processed)
          /\ ((wh.status # 403 \/ wh.processed) /\ ~matches)
                => APP_SECRET(wh.env) = ""

\* C35 witness: under the secret s1 the iframe endpoint got a body signed for
\* another body in the second header, and refused it
C35_Witness ==
    /\ APP_SECRET(wh.env) = "s1"
    /\ wh.endpoint = "iframe" /\ wh.raw = "b1"
    /\ wh.headers = <<"", hmac_hexdigest("s1", "b2"), hmac_hexdigest("s1", "b1")>>
    /\ wh.status = 403 /\ ~wh.processed

=============================================================================
